---- MODULE Spec2Model ----
(***************************************************************************)
(* Budgets view (src/src/pages/Budgets.tsx) and report aggregation         *)
(* (src/src/pages/Reports.tsx) of the finance tracker, over the data store *)
(* whose schema is in src/src/components/AppSidebar.tsx.                   *)
(*                                                                         *)
(* Time is counted in minutes since 1970-01-01T00:00Z (the code counts     *)
(* milliseconds; every instant used here is a whole minute).  A calendar   *)
(* date string "YYYY-MM-DD" is the record [y, m, d] of its three numbers.  *)
(* Amounts are whole numbers of the smallest currency unit.                *)
(***************************************************************************)
EXTENDS Integers, Sequences, FiniteSets, TLC

Null == "null"

Pending == -1

D(y, m, d) == [y |-> y, m |-> m, d |-> d]

\* no date: a NULL end_date
NoDate == D(0, 0, 0)

\* an amount field left empty
Blank == -1

(***************************************************************************)
(* The JavaScript Date operations the code uses.                           *)
(***************************************************************************)
MinPerDay == 24 * 60

\* floor and modulo that are right for negative numerators too
FloorDiv(a, b) == IF a >= 0 THEN a \div b ELSE -((-a + b - 1) \div b)

Mod(a, b) == a - b * FloorDiv(a, b)

\* MakeDay: the day number of year y, month m (1..12), day-of-month d,
\* where d is any integer (day 0 is the last day of the month before)
DaysFromCivil(y, m, d) ==
    LET yy  == IF m <= 2 THEN y - 1 ELSE y
        era == FloorDiv(yy, 400)
        yoe == yy - era * 400
        mp  == IF m > 2 THEN m - 3 ELSE m + 9
        doy == FloorDiv(153 * mp + 2, 5) + d - 1
        doe == yoe * 365 + FloorDiv(yoe, 4) - FloorDiv(yoe, 100) + doy
    IN  era * 146097 + doe - 719468

\* the calendar date of a day number (YearFromTime, MonthFromTime, DateFromTime)
CivilFromDays(n) ==
    LET z   == n + 719468
        era == FloorDiv(z, 146097)
        doe == z - era * 146097
        yoe == FloorDiv(doe - FloorDiv(doe, 1460) + FloorDiv(doe, 36524)
                            - FloorDiv(doe, 146096), 365)
        doy == doe - (365 * yoe + FloorDiv(yoe, 4) - FloorDiv(yoe, 100))
        mp  == FloorDiv(5 * doy + 2, 153)
        dd  == doy - FloorDiv(153 * mp + 2, 5) + 1
        mm  == IF mp < 10 THEN mp + 3 ELSE mp - 9
        yy  == yoe + era * 400 + (IF mm <= 2 THEN 1 ELSE 0)
    IN  D(yy, mm, dd)

\* new Date("YYYY-MM-DD"): a date-only string is midnight UTC
ParseDate(s) == DaysFromCivil(s.y, s.m, s.d) * MinPerDay

\* getFullYear(), getMonth() (0-based) and getDate() read the local clock
LocalFields(t, zone) == CivilFromDays(FloorDiv(t + zone, MinPerDay))

\* new Date(year, monthIndex, day): midnight of that day on the local clock;
\* monthIndex is 0-based and may overflow into the next year
LocalDate(year, monthIndex, day, zone) ==
    DaysFromCivil(year + FloorDiv(monthIndex, 12), Mod(monthIndex, 12) + 1, day)
        * MinPerDay - zone

\* d.toISOString().split('T')[0]: the UTC calendar date of the instant
IsoDate(t) == CivilFromDays(FloorDiv(t, MinPerDay))

WeekSpan == 7 * 24 * 60

(***************************************************************************)
(* fetchBudgets, lines 101-112: the window end of one budget row.          *)
(***************************************************************************)
ResolveEndMonthly(startDate, zone) ==
    LET f == LocalFields(startDate, zone)
    IN  LocalDate(f.y, (f.m - 1) + 1, 0, zone)

\* a week counted as six days
ResolveEndWeeklySixDays(startDate) == startDate + 6 * 24 * 60

ResolveEndWeekly(startDate) == startDate + WeekSpan

ResolveEndYearly(startDate, zone) ==
    LET f == LocalFields(startDate, zone)
    IN  LocalDate(f.y + 1, f.m - 1, f.d, zone)

ResolveEndGiven(end_date) == ParseDate(end_date)

\* the period's rule applied without looking at end_date first
ResolveEndPeriodFirst(budget, currentDate, zone) ==
    LET startDate == ParseDate(budget.start_date)
    IN  IF budget.period = "monthly" THEN ResolveEndMonthly(startDate, zone)
        ELSE IF budget.period = "weekly" THEN ResolveEndWeekly(startDate)
        ELSE IF budget.period = "yearly" THEN ResolveEndYearly(startDate, zone)
        ELSE IF budget.end_date # NoDate THEN ResolveEndGiven(budget.end_date)
        ELSE currentDate

ResolveEnd(budget, currentDate, zone) ==
    LET startDate == ParseDate(budget.start_date)
    IN  IF budget.end_date # NoDate THEN ResolveEndGiven(budget.end_date)
        ELSE IF budget.period = "monthly" THEN ResolveEndMonthly(startDate, zone)
        ELSE IF budget.period = "weekly" THEN ResolveEndWeekly(startDate)
        ELSE IF budget.period = "yearly" THEN ResolveEndYearly(startDate, zone)
        ELSE currentDate


(***************************************************************************)
(* State.                                                                  *)
(***************************************************************************)
VARIABLES
    user,        \* useAuth(): the signed-in user's id, or Null
    zone,        \* the browser's offset from UTC in minutes (local = UTC + zone)
    now,         \* the instant new Date() returns
    dbBudgets,   \* table public.budgets: a set of rows
    dbExpenses,  \* table public.expenses: a set of rows
    dbCategories,\* table public.categories: a set of rows
    settings,    \* the settings view: useState<Category[]> and its fetchCategories calls
    view,        \* the budgets view: loading, the two dialogs and their forms, the cards
    budgets,     \* useState<Budget[]>: the displayed rows, each with spent
    fetches,     \* the fetchBudgets calls in flight, by slot
    io,          \* what the latest step did at the boundary: the outcome of
                 \* the store read it settled, the toast it showed, the line it
                 \* logged with console.error, the fields of the row it sent
    synced,      \* history: the displayed rows come from reads of the store
                 \* and of the clock as they are now
    readsOk,     \* history: no read of the fetch that set the displayed rows
                 \* returned an error
    rfetch,      \* the fetchReportsData call of the reports view
    profile,     \* the fetchProfile call of the reports view
    timeRange,   \* useState('6months')
    customMonth, \* useState(''): the month chosen for custom_month, or NoMonth
    loading,     \* useState(true) of the reports view
    monthlyData, \* useState<MonthlyData[]>: the rows of the monthly overview
    categoryData,\* useState<CategoryData[]>: the rows of the category breakdown
    trendData,   \* useState<TrendData[]>: the entries of the daily trend
    totalStats,  \* useState: the totals of the report
    reportInput, \* history: what the displayed report was computed from
    rolder,      \* the earlier fetchReportsData calls that are still in flight
    reportLog    \* history: the calls that showed a report, each with what it
                 \* was computed from and what it showed

reportVars == <<rfetch, profile, timeRange, customMonth, loading, monthlyData,
                categoryData, trendData, totalStats, reportInput, rolder, reportLog>>

vars == <<user, zone, now, dbBudgets, dbExpenses, dbCategories, settings, view, budgets,
          fetches, io,
          synced, readsOk, reportVars>>

MaxFetches == 1

MaxBudgets == 1

MaxExpenses == 1

Slots == 1 .. MaxFetches

TimeZones == {-300, 0, 330}

ClockStart == ParseDate(D(2024, 3, 10)) + 21 * 60

\* handler is the write handler the step ran, write what the store answered
\* to its write
Quiet == [read |-> "none", toast |-> Null, log |-> Null, sent |-> {}, handler |-> Null,
          write |-> "none"]

\* the settings view before it is mounted: lines 58 and 209-215
SettingsClosed == [categories |-> <<>>, open |-> FALSE, inflight |-> 0]

\* lines 57-63 and 186-192: the add form as it is made and as it is reset,
\* with start_date the UTC date of new Date()
DefaultForm(t) ==
    [name |-> "", amount |-> Blank, period |-> "monthly", category_id |-> "",
     start_date |-> IsoDate(t)]

\* lines 49-72: the budgets view before its effect runs; first is the slot
\* of the effect's fetchBudgets while it is in flight, cats its fetchCategories
ViewClosed(t) ==
    [loading |-> TRUE, first |-> 0, cats |-> "closed",
     isAddDialogOpen |-> FALSE, addFormData |-> DefaultForm(t),
     isEditDialogOpen |-> FALSE, editingBudget |-> <<>>,
     editFormData |-> [name |-> "", amount |-> Blank, period |-> "monthly",
                       category_id |-> "", start_date |-> NoDate],
     cards |-> <<>>]

Idle == [pc |-> "idle", rows |-> <<>>, lte |-> <<>>, spent |-> <<>>,
         failed |-> FALSE, stale |-> FALSE]

(***************************************************************************)
(* The data store: PostgREST filters over the tables of the schema.        *)
(***************************************************************************)
\* DATE comparison, column <= literal
\* REFERENCES public.categories(id): a row may point to no category, or to
\* one that is in the table
RefOk(category_id) == category_id = Null \/ \E c \in dbCategories : c.id = category_id

DateLE(a, b) ==
    \/ a.y < b.y
    \/ a.y = b.y /\ a.m < b.m
    \/ a.y = b.y /\ a.m = b.m /\ a.d <= b.d

RECURSIVE SumAmounts(_)
\* expensesData.reduce((sum, expense) => sum + Number(expense.amount), 0)
SumAmounts(S) ==
    IF S = {} THEN 0
    ELSE LET e == CHOOSE x \in S : TRUE
         IN  e.amount + SumAmounts(S \ {e})

\* the upper bound sent with .lt in place of .lte
SelectExpensesBeforeEnd(q) ==
    {e \in dbExpenses :
        /\ e.user_id = q.user
        /\ DateLE(q.gte, e.expense_date)
        /\ DateLE(e.expense_date, q.lte) /\ e.expense_date # q.lte
        /\ (q.cat # Null => e.category_id = q.cat)}

\* .from('expenses').select('amount').eq('user_id', ..).gte('expense_date', ..)
\* .lte('expense_date', ..) and, when the budget has a category, .eq('category_id', ..)
SelectExpenses(q) ==
    {e \in dbExpenses :
        /\ e.user_id = q.user
        /\ DateLE(q.gte, e.expense_date)
        /\ DateLE(e.expense_date, q.lte)
        /\ (q.cat # Null => e.category_id = q.cat)}

\* .from('budgets').select(..).eq('user_id', ..).order('start_date', descending):
\* every order of the user's rows that is descending in start_date
SelectBudgets(u) ==
    LET S == {b \in dbBudgets : b.user_id = u}
        n == Cardinality(S)
    IN  {p \in [1 .. n -> S] :
            /\ \A i, j \in 1 .. n : i # j => p[i] # p[j]
            /\ \A i, j \in 1 .. n : i < j => DateLE(p[j].start_date, p[i].start_date)}

\* lines 114-123: the expenses query of one budget row
ExpensesQuery(row, end) ==
    [user |-> user, gte |-> row.start_date, lte |-> end, cat |-> row.category_id]

\* line 126: spent, 0 when the read returned no data
SpentOf(row, end, ok) ==
    IF ok THEN SumAmounts(SelectExpenses(ExpensesQuery(row, end))) ELSE 0

\* line 128: { ...budget, spent }
WithSpent(rows, spent) ==
    [i \in 1 .. Len(rows) |->
        [id |-> rows[i].id, name |-> rows[i].name, amount |-> rows[i].amount,
         period |-> rows[i].period, start_date |-> rows[i].start_date,
         end_date |-> rows[i].end_date, category_id |-> rows[i].category_id,
         spent |-> spent[i]]]

\* the reports view is not open
\* customMonth is '' until a month is chosen
NoMonth == [year |-> 0, month |-> 0]

\* a ratio is kept exact, as the fraction num / den
Zero == [num |-> 0, den |-> 1]

NoReport == [pc |-> "closed", expensesData |-> <<>>, currentDate |-> 0,
             timeRange |-> "6months", customMonth |-> NoMonth,
             gte |-> NoDate, lte |-> NoDate]

NoStats == [totalExpenses |-> 0, averageDaily |-> Zero, totalBudget |-> 0,
            savingsRate |-> Zero]

NoInput == [shown |-> FALSE, expenses |-> <<>>, budgets |-> <<>>, currentDate |-> 0,
            dateNow |-> 0, timeRange |-> "6months", customMonth |-> NoMonth]

\* lines 56-69: the state of the view before its effects run
ReportsClosed ==
    /\ rfetch = NoReport
    /\ profile = "closed"
    /\ timeRange = "6months"
    /\ customMonth = NoMonth
    /\ loading = TRUE
    /\ monthlyData = <<>>
    /\ categoryData = <<>>
    /\ trendData = <<>>
    /\ totalStats = NoStats
    /\ reportInput = NoInput
    /\ rolder = <<>>
    /\ reportLog = <<>>

(***************************************************************************)
(* fetchBudgets, lines 74-141.                                             *)
(***************************************************************************)
HasIdle(fs) == \E s \in DOMAIN fs : fs[s].pc = "idle"

\* the slot the next call takes
IdleSlot(fs) ==
    CHOOSE s \in DOMAIN fs :
        fs[s].pc = "idle" /\ \A t \in DOMAIN fs : t < s => fs[t].pc # "idle"

\* the call: the budgets query is sent
FetchBudgetsCall(fs) == [fs EXCEPT ![IdleSlot(fs)] = [Idle EXCEPT !.pc = "budgets"]]

\* a change of the store or of the clock: what a fetch has read is out of date
Outdated(fs) ==
    [s \in DOMAIN fs |-> IF fs[s].pc = "expenses" THEN [fs[s] EXCEPT !.stale = TRUE]
                         ELSE fs[s]]

\* the status a card always shows
getBudgetStatusGood(budget) == "good"

\* lines 294-299, with progress as the fraction spent * 100 / amount
getBudgetStatus(budget) ==
    LET progress == IF budget.spent # 0
                    THEN [num |-> budget.spent * 100, den |-> budget.amount]
                    ELSE Zero
    IN  IF progress.num >= 100 * progress.den THEN "exceeded"
        ELSE IF progress.num >= 80 * progress.den THEN "warning"
        ELSE "good"

\* lines 514-577: the card of a budget: its status, the value of the progress
\* bar, Math.min(progress, 100), and the remaining amount
Card(budget) ==
    LET progress == IF budget.spent # 0
                    THEN [num |-> budget.spent * 100, den |-> budget.amount]
                    ELSE Zero
    IN  [id |-> budget.id,
         status |-> getBudgetStatus(budget),
         value |-> IF progress.num < 100 * progress.den THEN progress
                   ELSE [num |-> 100, den |-> 1],
         remaining |-> IF budget.amount - budget.spent > 0
                       THEN budget.amount - budget.spent ELSE 0]

\* lines 286-292 and 514: the spinner while loading, then a card per budget
Render(v, rows) ==
    [v EXCEPT !.cards = IF v.loading THEN <<>>
                        ELSE [i \in 1 .. Len(rows) |-> Card(rows[i])]]

\* an effect whose fetchBudgets leaves loading to fetchCategories
AfterFetchStillLoading(v, s) == IF v.first = s THEN [v EXCEPT !.first = 0] ELSE v

\* lines 278-284: fetchBudgets of the effect has settled in slot s; loading is
\* cleared when fetchCategories has settled too
AfterFetch(v, s) ==
    IF v.first = s
    THEN [v EXCEPT !.first = 0, !.loading = v.loading /\ v.cats = "inflight"]
    ELSE v

\* lines 78-97 and 133-140: the budgets query failed
BudgetsFailed(s) ==
    /\ fetches[s].pc = "budgets"
    /\ fetches' = [fetches EXCEPT ![s] = Idle]
    /\ view' = Render(AfterFetch(view, s), budgets)
    /\ io' = [Quiet EXCEPT !.read = "failed", !.toast = "Failed to load budgets",
                           !.log = "Error fetching budgets"]
    /\ UNCHANGED <<user, zone, now, dbBudgets, dbExpenses, budgets, synced, readsOk,
                   reportVars, dbCategories, settings>>

\* lines 78-125: the budgets query returned; every row's window is resolved
\* and its expenses query sent (with no row, Promise.all settles at once)
BudgetsReturned(s) ==
    /\ fetches[s].pc = "budgets"
    /\ \E rows \in SelectBudgets(user) :
          IF Len(rows) = 0
          THEN /\ budgets' = <<>>
               /\ fetches' = [fetches EXCEPT ![s] = Idle]
               /\ view' = Render(AfterFetch(view, s), <<>>)
               /\ synced' = TRUE
               /\ readsOk' = TRUE
          ELSE /\ fetches' = [fetches EXCEPT ![s] =
                     [pc |-> "expenses", rows |-> rows,
                      lte |-> [i \in 1 .. Len(rows) |-> IsoDate(ResolveEnd(rows[i], now, zone))],
                      spent |-> [i \in 1 .. Len(rows) |-> Pending],
                      failed |-> FALSE, stale |-> FALSE]]
               /\ UNCHANGED <<budgets, view, synced, readsOk>>
    /\ io' = [Quiet EXCEPT !.read = "ok"]
    /\ UNCHANGED <<user, zone, now, dbBudgets, dbExpenses, reportVars, dbCategories, settings>>

\* lines 125-132: the expenses query of row i settled, with data (ok) or with an
\* error; when it is the last one, setBudgets
ExpensesSettled(s, i, ok) ==
    /\ fetches[s].pc = "expenses"
    /\ i \in 1 .. Len(fetches[s].rows)
    /\ fetches[s].spent[i] = Pending
    /\ LET f     == fetches[s]
           spent == [f.spent EXCEPT ![i] = SpentOf(f.rows[i], f.lte[i], ok)]
           bad   == f.failed \/ ~ok
       IN  IF \A j \in 1 .. Len(spent) : spent[j] # Pending
           THEN /\ budgets' = WithSpent(f.rows, spent)
                /\ fetches' = [fetches EXCEPT ![s] = Idle]
                /\ view' = Render(AfterFetch(view, s), WithSpent(f.rows, spent))
                /\ synced' = ~f.stale
                /\ readsOk' = ~bad
           ELSE /\ fetches' = [fetches EXCEPT ![s] = [f EXCEPT !.spent = spent, !.failed = bad]]
                /\ UNCHANGED <<budgets, view, synced, readsOk>>
    /\ io' = [Quiet EXCEPT !.read = IF ok THEN "ok" ELSE "failed"]
    /\ UNCHANGED <<user, zone, now, dbBudgets, dbExpenses, reportVars, dbCategories, settings>>

\* lines 143-159: fetchCategories of the effect settled, with the rows or with
\* an error, which is logged only; loading is cleared when fetchBudgets has
\* settled too (lines 280-282)
BudgetCategoriesSettled(ok) ==
    /\ view.cats = "inflight"
    /\ view' = Render([view EXCEPT !.cats = "settled",
                                   !.loading = view.loading /\ view.first # 0], budgets)
    /\ io' = IF ok THEN [Quiet EXCEPT !.read = "ok"]
             ELSE [Quiet EXCEPT !.read = "categories failed", !.log = "Error fetching categories"]
    /\ UNCHANGED <<user, zone, now, dbBudgets, dbExpenses, budgets, fetches, synced,
                   readsOk, reportVars, dbCategories, settings>>

\* lines 278-284: the effect that runs when the user is known
SignIn ==
    /\ user = Null
    /\ user' = "u1"
    /\ fetches' = FetchBudgetsCall(fetches)
    /\ view' = [view EXCEPT !.first = IdleSlot(fetches), !.cats = "inflight"]
    /\ io' = Quiet
    /\ UNCHANGED <<zone, now, dbBudgets, dbExpenses, budgets, synced, readsOk, reportVars,
                   dbCategories, settings>>


(***************************************************************************)
(* The dialogs and write handlers of the budgets view, which the page      *)
(* offers once loading is false.  Each write handler is taken with the     *)
(* store's answer to its one write: ok, or an error.                       *)
(***************************************************************************)
FormNames == {"", "Rent"}

\* the amount field: empty, or the text of a number
FormAmounts == {Blank, 100}

\* the period <Select> offers these three
FormPeriods == {"monthly", "weekly", "yearly"}

\* '' stands for no category
FormCategories == {"", "c1"}

FormDates == {D(2024, 3, 1)}

InsertFields == {"user_id", "name", "amount", "period", "category_id", "start_date"}

UpdateFields == {"name", "amount", "period", "category_id", "start_date"}

\* category_id: form.category_id || null
OrNull(x) == IF x = "" THEN Null ELSE x

\* the id the store gives a new row
FreshId == CHOOSE n \in 1 .. MaxBudgets :
               (\A b \in dbBudgets : b.id # n)
               /\ \A k \in 1 .. MaxBudgets : k < n => \E b \in dbBudgets : b.id = k

\* line 310 (onOpenChange) and line 400 (Cancel)
setIsAddDialogOpen(open) ==
    /\ ~view.loading
    /\ view.isAddDialogOpen # open
    /\ view' = [view EXCEPT !.isAddDialogOpen = open]
    /\ io' = Quiet
    /\ UNCHANGED <<user, zone, now, dbBudgets, dbExpenses, budgets, fetches, synced,
                   readsOk, reportVars, dbCategories, settings>>

\* lines 331-393: the fields of the add form are typed or chosen
setAddFormData(form) ==
    /\ ~view.loading
    /\ view.isAddDialogOpen
    /\ view.addFormData # form
    /\ view' = [view EXCEPT !.addFormData = form]
    /\ io' = Quiet
    /\ UNCHANGED <<user, zone, now, dbBudgets, dbExpenses, budgets, fetches, synced,
                   readsOk, reportVars, dbCategories, settings>>

\* a handler that closes the dialog whatever the store answers
AfterAddClosing(v, ok) == [v EXCEPT !.isAddDialogOpen = FALSE]

\* lines 185-192 on success; nothing (lines 194-201) on an error
AfterAdd(v, ok) ==
    IF ok THEN [v EXCEPT !.isAddDialogOpen = FALSE, !.addFormData = DefaultForm(now)]
    ELSE v

\* lines 161-202: the add form is submitted
handleAddBudget(ok) ==
    /\ ~view.loading
    /\ view.isAddDialogOpen
    /\ LET form == view.addFormData
       IN  IF user = Null \/ form.name = "" \/ form.amount = Blank
           THEN /\ io' = [Quiet EXCEPT !.handler = "handleAddBudget"]
                /\ UNCHANGED <<user, zone, now, dbBudgets, dbExpenses, budgets, fetches,
                               synced, readsOk, reportVars, dbCategories, settings, view>>
           ELSE /\ \E n \in 1 .. MaxBudgets : \A b \in dbBudgets : b.id # n
                /\ HasIdle(fetches)
                /\ IF ok /\ RefOk(OrNull(form.category_id))
                   THEN /\ dbBudgets' = dbBudgets \cup
                              {[id |-> FreshId, user_id |-> user, name |-> form.name,
                                amount |-> form.amount, period |-> form.period,
                                start_date |-> form.start_date, end_date |-> NoDate,
                                category_id |-> OrNull(form.category_id)]}
                        /\ io' = [Quiet EXCEPT !.toast = "Budget created successfully",
                                               !.sent = InsertFields,
                                               !.handler = "handleAddBudget",
                                               !.write = "ok"]
                        /\ view' = AfterAdd(view, TRUE)
                        /\ fetches' = FetchBudgetsCall(Outdated(fetches))
                        /\ synced' = FALSE
                        /\ UNCHANGED <<user, zone, now, dbExpenses, budgets, readsOk,
                                       reportVars, dbCategories, settings>>
                   ELSE /\ io' = [Quiet EXCEPT !.toast = "Failed to create budget",
                                               !.log = "Error adding budget",
                                               !.sent = InsertFields,
                                               !.handler = "handleAddBudget",
                                               !.write = "failed"]
                        /\ view' = AfterAdd(view, FALSE)
                        /\ UNCHANGED <<user, zone, now, dbBudgets, dbExpenses, budgets,
                                       fetches, synced, readsOk, reportVars, dbCategories,
                                       settings>>

\* lines 266-276, on the displayed row i; only the id of editingBudget is read
\* (line 218)
openEditDialog(i) ==
    /\ ~view.loading
    /\ i \in 1 .. Len(budgets)
    /\ ~view.isEditDialogOpen
    /\ view' = [view EXCEPT
                   !.editingBudget = <<budgets[i].id>>,
                   !.editFormData =
                       [name |-> budgets[i].name, amount |-> budgets[i].amount,
                        period |-> budgets[i].period,
                        category_id |-> IF budgets[i].category_id = Null THEN ""
                                        ELSE budgets[i].category_id,
                        start_date |-> budgets[i].start_date],
                   !.isEditDialogOpen = TRUE]
    /\ io' = Quiet
    /\ UNCHANGED <<user, zone, now, dbBudgets, dbExpenses, budgets, fetches, synced,
                   readsOk, reportVars, dbCategories, settings>>

\* line 410 (onOpenChange) and line 494 (Cancel): the edit dialog is closed
setIsEditDialogOpen(open) ==
    /\ ~view.loading
    /\ ~open
    /\ view.isEditDialogOpen
    /\ view' = [view EXCEPT !.isEditDialogOpen = open]
    /\ io' = Quiet
    /\ UNCHANGED <<user, zone, now, dbBudgets, dbExpenses, budgets, fetches, synced,
                   readsOk, reportVars, dbCategories, settings>>

\* lines 425-487: the fields of the edit form are typed or chosen
setEditFormData(form) ==
    /\ ~view.loading
    /\ view.isEditDialogOpen
    /\ view.editFormData # form
    /\ view' = [view EXCEPT !.editFormData = form]
    /\ io' = Quiet
    /\ UNCHANGED <<user, zone, now, dbBudgets, dbExpenses, budgets, fetches, synced,
                   readsOk, reportVars, dbCategories, settings>>

\* lines 204-239: the edit form is submitted
handleEditBudget(ok) ==
    /\ ~view.loading
    /\ view.isEditDialogOpen
    /\ LET form == view.editFormData
       IN  IF user = Null \/ view.editingBudget = <<>> \/ form.name = ""
              \/ form.amount = Blank
           THEN /\ io' = [Quiet EXCEPT !.handler = "handleEditBudget"]
                /\ UNCHANGED <<user, zone, now, dbBudgets, dbExpenses, budgets, fetches,
                               synced, readsOk, reportVars, dbCategories, settings, view>>
           ELSE /\ HasIdle(fetches)
                /\ IF ok /\ RefOk(OrNull(form.category_id))
                   THEN /\ dbBudgets' =
                              {IF b.id = view.editingBudget[1]
                               THEN [b EXCEPT !.name = form.name, !.amount = form.amount,
                                              !.period = form.period,
                                              !.start_date = form.start_date,
                                              !.category_id = OrNull(form.category_id)]
                               ELSE b : b \in dbBudgets}
                        /\ io' = [Quiet EXCEPT !.toast = "Budget updated successfully",
                                               !.sent = UpdateFields,
                                               !.handler = "handleEditBudget",
                                               !.write = "ok"]
                        /\ view' = [view EXCEPT !.isEditDialogOpen = FALSE,
                                                !.editingBudget = <<>>]
                        /\ fetches' = FetchBudgetsCall(Outdated(fetches))
                        /\ synced' = FALSE
                        /\ UNCHANGED <<user, zone, now, dbExpenses, budgets, readsOk,
                                       reportVars, dbCategories, settings>>
                   ELSE /\ io' = [Quiet EXCEPT !.toast = "Failed to update budget",
                                               !.log = "Error updating budget",
                                               !.sent = UpdateFields,
                                               !.handler = "handleEditBudget",
                                               !.write = "failed"]
                        /\ UNCHANGED <<user, zone, now, dbBudgets, dbExpenses, budgets,
                                       fetches, synced, readsOk, reportVars, dbCategories,
                                       settings, view>>

\* lines 241-264, on the displayed row i
handleDeleteBudget(i, ok) ==
    /\ ~view.loading
    /\ i \in 1 .. Len(budgets)
    /\ HasIdle(fetches)
    /\ IF ok
       THEN /\ dbBudgets' = {b \in dbBudgets : b.id # budgets[i].id}
            /\ io' = [Quiet EXCEPT !.toast = "Budget deleted successfully",
                                   !.handler = "handleDeleteBudget", !.write = "ok"]
            /\ fetches' = FetchBudgetsCall(Outdated(fetches))
            /\ synced' = FALSE
            /\ UNCHANGED <<user, zone, now, dbExpenses, budgets, readsOk, reportVars,
                           dbCategories, settings, view>>
       ELSE /\ io' = [Quiet EXCEPT !.toast = "Failed to delete budget",
                                   !.log = "Error deleting budget",
                                   !.handler = "handleDeleteBudget", !.write = "failed"]
            /\ UNCHANGED <<user, zone, now, dbBudgets, dbExpenses, budgets,
                           fetches, synced, readsOk, reportVars, dbCategories, settings,
                           view>>

(***************************************************************************)
(* What happens outside the budgets view: expenses are added and deleted   *)
(* on the expenses page.                                                   *)
(***************************************************************************)
Expense(id, u, date, cat, amount) ==
    [id |-> id, user_id |-> u, expense_date |-> date, category_id |-> cat, amount |-> amount]

\* a row of public.categories, as handleAddCategory inserts it
CategoryRow(id, name) == [id |-> id, user_id |-> "u1", name |-> name, color |-> "#3B82F6"]

StoredCategories == {CategoryRow("c1", "Food"), CategoryRow("c2", "Travel")}

ExpenseInputs ==
    { Expense(1, "u1", D(2024, 3, 1), "c1", 5),
      Expense(2, "u1", D(2024, 3, 8), Null, 7) }

AddExpense(e) ==
    /\ \A x \in dbExpenses : x.id # e.id
    /\ RefOk(e.category_id)
    /\ Cardinality(dbExpenses) < MaxExpenses
    /\ dbExpenses' = dbExpenses \cup {e}
    /\ fetches' = Outdated(fetches)
    /\ synced' = FALSE
    /\ io' = Quiet
    /\ UNCHANGED <<user, zone, now, dbBudgets, budgets, readsOk, reportVars, dbCategories, settings, view>>

DeleteExpense(e) ==
    /\ e \in dbExpenses
    /\ dbExpenses' = dbExpenses \ {e}
    /\ fetches' = Outdated(fetches)
    /\ synced' = FALSE
    /\ io' = Quiet
    /\ UNCHANGED <<user, zone, now, dbBudgets, budgets, readsOk, reportVars, dbCategories, settings, view>>

(***************************************************************************)
(* The settings view: categories are listed, added and deleted.  The       *)
(* store's part of a deletion is the schema's: expenses.category_id is     *)
(* ON DELETE SET NULL, budgets.category_id is ON DELETE CASCADE.           *)
(***************************************************************************)
MaxCategoryRows == 2

MaxCategoryFetches == 1

CategoryIds == {"c1", "c2"}

\* the names the form is filled with, in the order .order('name') gives them
NamesInOrder == <<"Food", "Travel">>

FormCategoryNames == {"", "Food", "Travel"}

\* .from('categories').select('*').eq('user_id', u).order('name'); the schema
\* has UNIQUE(user_id, name)
SelectCategories(u) ==
    LET named(k) == {c \in dbCategories : c.user_id = u /\ c.name = NamesInOrder[k]}
        F[k \in 0 .. Len(NamesInOrder)] ==
            IF k = 0 THEN <<>>
            ELSE IF named(k) = {} THEN F[k - 1]
                 ELSE Append(F[k - 1], CHOOSE c \in named(k) : TRUE)
    IN  F[Len(NamesInOrder)]

\* DELETE FROM categories WHERE id = categoryId, on the expenses table
ExpensesAfterDelete(categoryId) ==
    { IF e.category_id = categoryId THEN [e EXCEPT !.category_id = Null] ELSE e :
      e \in dbExpenses }

\* a store without the foreign key's action on budgets
BudgetsKept(categoryId) == dbBudgets

\* DELETE FROM categories WHERE id = categoryId, on the budgets table
BudgetsAfterDelete(categoryId) == {b \in dbBudgets : b.category_id # categoryId}

\* lines 209-215: the effect that runs when the view is mounted with a user
SettingsOpened ==
    /\ user # Null
    /\ ~settings.open
    /\ settings' = [settings EXCEPT !.open = TRUE, !.inflight = 1]
    /\ io' = Quiet
    /\ UNCHANGED <<user, zone, now, dbBudgets, dbExpenses, dbCategories, view, budgets, fetches,
                   synced, readsOk, reportVars>>

\* lines 95-111: fetchCategories settles, with the rows or with an error
CategoriesSettled(ok) ==
    /\ settings.inflight > 0
    /\ IF ok
       THEN /\ settings' = [settings EXCEPT !.categories = SelectCategories(user),
                                            !.inflight = @ - 1]
            /\ io' = [Quiet EXCEPT !.read = "ok"]
       ELSE /\ settings' = [settings EXCEPT !.inflight = @ - 1]
            /\ io' = [Quiet EXCEPT !.read = "failed", !.log = "Error fetching categories"]
    /\ UNCHANGED <<user, zone, now, dbBudgets, dbExpenses, dbCategories, view, budgets, fetches,
                   synced, readsOk, reportVars>>

\* lines 147-183; the insert fails when the store says so, and always when the
\* user has a category of that name
handleAddCategory(name, id, ok) ==
    /\ settings.open
    /\ settings.inflight < MaxCategoryFetches
    /\ Cardinality(dbCategories) < MaxCategoryRows
    /\ \A c \in dbCategories : c.id # id
    /\ IF user = Null \/ name = ""
       THEN UNCHANGED vars
       ELSE IF ok /\ \A c \in dbCategories : ~(c.user_id = user /\ c.name = name)
            THEN /\ dbCategories' = dbCategories \cup {CategoryRow(id, name)}
                 /\ settings' = [settings EXCEPT !.inflight = @ + 1]
                 /\ io' = [Quiet EXCEPT !.toast = "Category added successfully",
                                        !.sent = {"user_id", "name", "color", "icon"}]
                 /\ UNCHANGED <<user, zone, now, dbBudgets, dbExpenses, view, budgets, fetches,
                                synced, readsOk, reportVars>>
            ELSE /\ io' = [Quiet EXCEPT !.toast = "Failed to add category",
                                        !.log = "Error adding category",
                                        !.sent = {"user_id", "name", "color", "icon"}]
                 /\ UNCHANGED <<user, zone, now, dbBudgets, dbExpenses, dbCategories,
                                settings, view, budgets, fetches, synced, readsOk,
                                reportVars>>

\* lines 184-207, on the displayed category i
handleDeleteCategory(i, ok) ==
    /\ settings.open
    /\ settings.inflight < MaxCategoryFetches
    /\ i \in 1 .. Len(settings.categories)
    /\ LET categoryId == settings.categories[i].id
       IN  IF ok
           THEN /\ dbCategories' = {c \in dbCategories : c.id # categoryId}
                /\ dbExpenses' = ExpensesAfterDelete(categoryId)
                /\ dbBudgets' = BudgetsAfterDelete(categoryId)
                /\ settings' = [settings EXCEPT !.inflight = @ + 1]
                /\ fetches' = Outdated(fetches)
                /\ synced' = FALSE
                /\ io' = [Quiet EXCEPT !.toast = "Category deleted successfully"]
                /\ UNCHANGED <<user, zone, now, view, budgets, readsOk, reportVars>>
           ELSE /\ io' = [Quiet EXCEPT !.toast = "Failed to delete category",
                                       !.log = "Error deleting category"]
                /\ UNCHANGED <<user, zone, now, dbBudgets, dbExpenses, dbCategories,
                               settings, view, budgets, fetches, synced, readsOk,
                               reportVars>>

(***************************************************************************)
(* The budgets view: the store starts empty, budgets are made, edited and  *)
(* deleted in the view, expenses on the expenses page.                     *)
(***************************************************************************)
\* what the forms are filled with in this view of the program
ViewForms ==
    { [name |-> "Rent", amount |-> 100, period |-> "monthly", category_id |-> "",
       start_date |-> D(2024, 3, 1)],
      [name |-> "Rent", amount |-> 100, period |-> "weekly", category_id |-> "c1",
       start_date |-> D(2024, 3, 1)] }

Init ==
    /\ user = Null
    /\ zone \in TimeZones
    /\ now = ClockStart
    /\ dbBudgets = {}
    /\ dbExpenses = {}
    /\ dbCategories = StoredCategories
    /\ settings = SettingsClosed
    /\ view = ViewClosed(now)
    /\ budgets = <<>>
    /\ fetches = [s \in Slots |-> Idle]
    /\ io = Quiet
    /\ synced = FALSE
    /\ readsOk = TRUE
    /\ ReportsClosed

Next ==
    \/ SignIn
    \/ \E s \in Slots : BudgetsFailed(s)
    \/ \E s \in Slots : BudgetsReturned(s)
    \/ \E s \in Slots, i \in 1 .. MaxBudgets, ok \in BOOLEAN : ExpensesSettled(s, i, ok)
    \/ \E ok \in BOOLEAN : BudgetCategoriesSettled(ok)
    \/ setIsAddDialogOpen(TRUE)
    \/ \E form \in ViewForms : setAddFormData(form)
    \/ \E ok \in BOOLEAN : handleAddBudget(ok)
    \/ \E i \in 1 .. MaxBudgets : openEditDialog(i)
    \/ \E form \in ViewForms : setEditFormData(form)
    \/ \E ok \in BOOLEAN : handleEditBudget(ok)
    \/ \E i \in 1 .. MaxBudgets, ok \in BOOLEAN : handleDeleteBudget(i, ok)
    \/ \E e \in ExpenseInputs : AddExpense(e)
    \/ \E e \in ExpenseInputs : DeleteExpense(e)

Spec == Init /\ [][Next]_vars


(***************************************************************************)
(* The dialogs of the budgets view with every form the fields can hold,    *)
(* empty name and empty amount included, and with the dialogs closed by    *)
(* hand.                                                                   *)
(***************************************************************************)
AllForms ==
    [name : FormNames, amount : FormAmounts, period : {"monthly"},
     category_id : {""}, start_date : FormDates]
    \cup [name : {"Rent"}, amount : {100}, period : {"weekly"},
          category_id : {"c1"}, start_date : FormDates]

InitForms ==
    /\ user = Null
    /\ zone = 0
    /\ now = ClockStart
    /\ dbBudgets = {}
    /\ dbExpenses = {}
    /\ dbCategories = StoredCategories
    /\ settings = SettingsClosed
    /\ view = ViewClosed(now)
    /\ budgets = <<>>
    /\ fetches = [s \in Slots |-> Idle]
    /\ io = Quiet
    /\ synced = FALSE
    /\ readsOk = TRUE
    /\ ReportsClosed

NextForms ==
    \/ SignIn
    \/ \E s \in Slots : BudgetsFailed(s)
    \/ \E s \in Slots : BudgetsReturned(s)
    \/ \E s \in Slots, i \in 1 .. MaxBudgets, ok \in BOOLEAN : ExpensesSettled(s, i, ok)
    \/ \E ok \in BOOLEAN : BudgetCategoriesSettled(ok)
    \/ \E open \in BOOLEAN : setIsAddDialogOpen(open)
    \/ \E form \in AllForms : setAddFormData(form)
    \/ \E ok \in BOOLEAN : handleAddBudget(ok)
    \/ \E i \in 1 .. MaxBudgets : openEditDialog(i)
    \/ \E open \in BOOLEAN : setIsEditDialogOpen(open)
    \/ \E form \in AllForms : setEditFormData(form)
    \/ \E ok \in BOOLEAN : handleEditBudget(ok)
    \/ \E i \in 1 .. MaxBudgets, ok \in BOOLEAN : handleDeleteBudget(i, ok)

SpecForms == InitForms /\ [][NextForms]_vars

(***************************************************************************)
(* The budgets view with room for a fetchBudgets that is still in flight   *)
(* when a write handler starts the next one.  Every read is answered, in   *)
(* any order.                                                              *)
(***************************************************************************)
OverlapSlots == 1 .. MaxFetches + 1

InitOverlap ==
    /\ user = Null
    /\ zone = 0
    /\ now = ClockStart
    /\ dbBudgets = {}
    /\ dbExpenses = {}
    /\ dbCategories = StoredCategories
    /\ settings = SettingsClosed
    /\ view = ViewClosed(now)
    /\ budgets = <<>>
    /\ fetches = [s \in OverlapSlots |-> Idle]
    /\ io = Quiet
    /\ synced = FALSE
    /\ readsOk = TRUE
    /\ ReportsClosed

NextOverlap ==
    \/ SignIn
    \/ \E s \in OverlapSlots : BudgetsReturned(s)
    \/ \E s \in OverlapSlots, i \in 1 .. MaxBudgets : ExpensesSettled(s, i, TRUE)
    \/ BudgetCategoriesSettled(TRUE)
    \/ setIsAddDialogOpen(TRUE)
    \/ \E form \in ViewForms : setAddFormData(form)
    \/ \E ok \in BOOLEAN : handleAddBudget(ok)
    \/ \E i \in 1 .. MaxBudgets : openEditDialog(i)
    \/ \E form \in ViewForms : setEditFormData(form)
    \/ \E ok \in BOOLEAN : handleEditBudget(ok)
    \/ \E i \in 1 .. MaxBudgets, ok \in BOOLEAN : handleDeleteBudget(i, ok)

SpecOverlap == InitOverlap /\ [][NextOverlap]_vars

(***************************************************************************)
(* fetchBudgets alone, over stores it may find.                            *)
(***************************************************************************)
MaxRows == 2

MaxStored == 2

Budget(id, u, period, start, end, cat) ==
    [id |-> id, user_id |-> u, name |-> "Rent", amount |-> 100, period |-> period,
     start_date |-> start, end_date |-> end, category_id |-> cat]

\* a period the form does not offer reaches the table by another client
AllPeriods == FormPeriods \cup {"daily"}

StartDates ==
    { D(2024, 2, 5), D(2023, 2, 5), D(2024, 2, 1), D(2024, 2, 29), D(2024, 1, 31),
      D(2023, 12, 28), D(2024, 12, 31), D(2024, 3, 10) }

EndDates == {D(2024, 3, 1), D(2024, 3, 31)}

Clocks == {ClockStart, ClockStart + 6 * 60}

NextFetch ==
    \/ SignIn
    \/ \E s \in Slots : BudgetsFailed(s)
    \/ \E s \in Slots : BudgetsReturned(s)
    \/ \E s \in Slots, i \in 1 .. MaxRows, ok \in BOOLEAN : ExpensesSettled(s, i, ok)

\* one budget of any period, start and end, in any zone, and no expense
InitDates ==
    /\ user = Null
    /\ zone \in TimeZones
    /\ now \in Clocks
    /\ \E period \in AllPeriods, start \in StartDates, end \in EndDates \cup {NoDate} :
          dbBudgets = {Budget(1, "u1", period, start, end, Null)}
    /\ dbExpenses = {}
    /\ dbCategories = StoredCategories
    /\ settings = SettingsClosed
    /\ view = ViewClosed(now)
    /\ budgets = <<>>
    /\ fetches = [s \in Slots |-> Idle]
    /\ io = Quiet
    /\ synced = FALSE
    /\ readsOk = TRUE
    /\ ReportsClosed

SpecDates == InitDates /\ [][NextFetch]_vars

StoredBudgets ==
    { Budget(1, "u1", "monthly", D(2024, 3, 1), NoDate, Null),
      Budget(2, "u1", "weekly", D(2024, 3, 1), NoDate, "c1"),
      Budget(3, "u1", "monthly", D(2024, 2, 5), D(2024, 3, 8), Null),
      Budget(4, "u1", "daily", D(2024, 3, 1), NoDate, "c2"),
      Budget(5, "u2", "weekly", D(2024, 3, 1), NoDate, Null) }

StoredExpenses ==
    { Expense(1, "u1", D(2024, 3, 1), "c1", 1),
      Expense(2, "u1", D(2024, 3, 8), Null, 2),
      Expense(3, "u1", D(2024, 3, 9), "c1", 4),
      Expense(4, "u1", D(2024, 2, 29), "c2", 8),
      Expense(5, "u1", D(2024, 3, 10), "c2", 16),
      Expense(6, "u1", D(2024, 3, 31), Null, 32),
      Expense(7, "u2", D(2024, 3, 5), "c1", 64) }

\* up to MaxRows budgets and MaxStored expenses, of this user and of another
InitSpent ==
    /\ user = Null
    /\ zone \in TimeZones
    /\ now = ClockStart
    /\ dbBudgets \in {S \in SUBSET StoredBudgets : Cardinality(S) \in 1 .. MaxRows}
    /\ dbExpenses \in {S \in SUBSET StoredExpenses : Cardinality(S) <= MaxStored}
    /\ dbCategories = StoredCategories
    /\ settings = SettingsClosed
    /\ view = ViewClosed(now)
    /\ budgets = <<>>
    /\ fetches = [s \in Slots |-> Idle]
    /\ io = Quiet
    /\ synced = FALSE
    /\ readsOk = TRUE
    /\ ReportsClosed

SpecSpent == InitSpent /\ [][NextFetch]_vars


(***************************************************************************)
(* fetchReportsData, lines 104-264: the two reads and the category         *)
(* breakdown.  A percentage is kept exact, as the fraction num / den.      *)
(***************************************************************************)
TopCategories == 6

NoCategory == [name |-> Null, color |-> Null]

Category(name) == [name |-> name, color |-> "#3B82F6"]

ReportRow(amount, cat) ==
    [amount |-> amount, expense_date |-> D(2024, 3, 1), categories |-> cat]

\* lines 179-187: one expense into categoryMap, which keeps insertion order
IntoCategoryMap(map, expense) ==
    IF expense.categories = NoCategory THEN map
    ELSE IF \E j \in 1 .. Len(map) : map[j].name = expense.categories.name
         THEN [j \in 1 .. Len(map) |->
                  IF map[j].name = expense.categories.name
                  THEN [map[j] EXCEPT !.amount = @ + expense.amount]
                  ELSE map[j]]
         ELSE Append(map, [name |-> expense.categories.name, amount |-> expense.amount,
                           color |-> expense.categories.color])

RECURSIVE CategoryMap(_)
\* lines 167-188, the category part of the loop
CategoryMap(rows) ==
    IF rows = <<>> THEN <<>>
    ELSE IntoCategoryMap(CategoryMap(SubSeq(rows, 1, Len(rows) - 1)), rows[Len(rows)])

RECURSIVE TotalExpenses(_)
\* line 171
TotalExpenses(rows) ==
    IF rows = <<>> THEN 0
    ELSE TotalExpenses(SubSeq(rows, 1, Len(rows) - 1)) + rows[Len(rows)].amount

\* line 208
Percentage(amount, totalExpenses) ==
    IF totalExpenses > 0 THEN [num |-> amount * 100, den |-> totalExpenses]
    ELSE [num |-> 0, den |-> 1]

\* the rows left in the order of the map
SortByAmountNot(rows) == rows

RECURSIVE SortByAmount(_)
\* line 210: .sort((a, b) => b.amount - a.amount), which is stable
SortByAmount(rows) ==
    IF rows = <<>> THEN <<>>
    ELSE LET n    == Len(rows)
             done == SortByAmount(SubSeq(rows, 1, n - 1))
             k    == Cardinality({j \in 1 .. Len(done) : done[j].amount >= rows[n].amount})
         IN  SubSeq(done, 1, k) \o <<rows[n]>> \o SubSeq(done, k + 1, Len(done))

\* the rows, none cut off
SliceNot(rows, n) == rows

\* line 211: .slice(0, 6)
Slice(rows, n) == SubSeq(rows, 1, IF Len(rows) < n THEN Len(rows) ELSE n)

\* lines 203-211
CategoryDataArray(rows) ==
    LET map   == CategoryMap(rows)
        total == TotalExpenses(rows)
    IN  Slice(SortByAmount([j \in 1 .. Len(map) |->
                  [name |-> map[j].name, amount |-> map[j].amount, color |-> map[j].color,
                   percentage |-> Percentage(map[j].amount, total)]]),
              TopCategories)

RECURSIVE TotalBudget(_)
\* line 191
TotalBudget(rows) ==
    IF rows = <<>> THEN 0
    ELSE TotalBudget(SubSeq(rows, 1, Len(rows) - 1)) + rows[Len(rows)].amount

SingleMonth(range) == range \in {"this_month", "last_month", "custom_month"}

\* lines 112-135: startDate, endDate and monthsBack of the selected range;
\* month is [year, month] as customMonth.split('-').map(Number) gives them
ReportWindow(range, month, currentDate, z) ==
    LET c == LocalFields(currentDate, z)
    IN  IF range = "this_month"
        THEN [startDate |-> LocalDate(c.y, c.m - 1, 1, z),
              endDate |-> LocalDate(c.y, c.m, 0, z), monthsBack |-> 1]
        ELSE IF range = "last_month"
        THEN [startDate |-> LocalDate(c.y, c.m - 2, 1, z),
              endDate |-> LocalDate(c.y, c.m - 1, 0, z), monthsBack |-> 1]
        ELSE IF range = "custom_month" /\ month # NoMonth
        THEN [startDate |-> LocalDate(month.year, month.month - 1, 1, z),
              endDate |-> LocalDate(month.year, month.month, 0, z), monthsBack |-> 1]
        ELSE LET monthsBack == IF range = "6months" THEN 6
                               ELSE IF range = "12months" THEN 12 ELSE 3
             IN  [startDate |-> LocalDate(c.y, c.m - 1 - monthsBack, 1, z),
                  endDate |-> currentDate, monthsBack |-> monthsBack]

\* the join categories (name, color) of line 142
CategoryOf(category_id) ==
    IF category_id = Null THEN NoCategory
    ELSE LET c == CHOOSE c \in dbCategories : c.id = category_id
         IN  [name |-> c.name, color |-> c.color]

ReportRowOf(e) ==
    [amount |-> e.amount, expense_date |-> e.expense_date,
     categories |-> CategoryOf(e.category_id)]

\* lines 138-148: the user's expenses of the window in every order that
\* .order('expense_date') allows
SelectReportExpenses(u, gte, lte) ==
    LET S == {e \in dbExpenses :
                 e.user_id = u /\ DateLE(gte, e.expense_date) /\ DateLE(e.expense_date, lte)}
        n == Cardinality(S)
    IN  {[j \in 1 .. n |-> ReportRowOf(f[j])] :
            f \in {g \in [1 .. n -> S] :
                     /\ \A j, k \in 1 .. n : j # k => g[j] # g[k]
                     /\ \A j \in 1 .. n - 1 : DateLE(g[j].expense_date, g[j + 1].expense_date)}}

RECURSIVE ById(_)
ById(S) ==
    IF S = {} THEN <<>>
    ELSE LET b == CHOOSE x \in S : \A z \in S : x.id <= z.id
         IN  <<[amount |-> b.amount, period |-> b.period, start_date |-> b.start_date,
                end_date |-> b.end_date]>> \o ById(S \ {b})

\* lines 153-158: for a single month .gte('start_date', ..) and
\* .lte('end_date', ..), which a row with no end_date does not pass; for the
\* other ranges both values are undefined and the reply, when there is one,
\* is every budget of the user.  The code only sums the rows (line 191), so
\* they are listed in one order.
SelectReportBudgets(u, range, gte, lte) ==
    ById({b \in dbBudgets :
            /\ b.user_id = u
            /\ SingleMonth(range) =>
                  /\ DateLE(gte, b.start_date)
                  /\ b.end_date # NoDate
                  /\ DateLE(b.end_date, lte)})

\* line 169: the year and month the expense's date has on the local clock
MonthKey(expense, z) ==
    LET f == LocalFields(ParseDate(expense.expense_date), z)
    IN  [year |-> f.y, month |-> f.m]

\* lines 173-176: one expense into monthlyMap, which keeps insertion order
IntoMonthlyMap(map, expense, z) ==
    IF \E j \in 1 .. Len(map) : map[j].key = MonthKey(expense, z)
    THEN [j \in 1 .. Len(map) |->
             IF map[j].key = MonthKey(expense, z)
             THEN [map[j] EXCEPT !.expenses = @ + expense.amount]
             ELSE map[j]]
    ELSE Append(map, [key |-> MonthKey(expense, z), expenses |-> expense.amount])

RECURSIVE MonthlyMap(_, _)
\* lines 167-188, the monthly part of the loop
MonthlyMap(rows, z) ==
    IF rows = <<>> THEN <<>>
    ELSE IntoMonthlyMap(MonthlyMap(SubSeq(rows, 1, Len(rows) - 1), z), rows[Len(rows)], z)

\* line 198: new Date(month + '-01').toLocaleDateString('en-US',
\* { month: 'short', year: '2-digit' })
MonthLabel(key, z) ==
    LET f == LocalFields(ParseDate(D(key.year, key.month, 1)), z)
    IN  [month |-> f.m, year |-> f.y % 100]

\* the budget of a month with the total of the report shown before added in
MonthlyBudgetKept(totalBudget, range, monthsBack) ==
    IF SingleMonth(range) THEN [num |-> totalBudget + totalStats.totalBudget, den |-> 1]
    ELSE [num |-> totalBudget + totalStats.totalBudget, den |-> monthsBack]

\* lines 192-194
MonthlyBudget(totalBudget, range, monthsBack) ==
    IF SingleMonth(range) THEN [num |-> totalBudget, den |-> 1]
    ELSE [num |-> totalBudget, den |-> monthsBack]

\* lines 197-201
MonthlyDataArray(rows, monthlyBudget, z) ==
    LET map == MonthlyMap(rows, z)
    IN  [j \in 1 .. Len(map) |->
            [month |-> MonthLabel(map[j].key, z), expenses |-> map[j].expenses,
             budget |-> monthlyBudget]]

TrendSpan == 30 * 24 * 60

\* lines 214-217
TrendStart(range, startDate, dateNow) ==
    IF SingleMonth(range) THEN startDate ELSE dateNow - TrendSpan

\* lines 222-225: one expense into dailyExpenses, a map from dateKey to sum
IntoDailyExpenses(map, expense, trendStartDate) ==
    LET expenseDate == ParseDate(expense.expense_date)
        dateKey     == IsoDate(expenseDate)
    IN  IF expenseDate < trendStartDate THEN map
        ELSE IF \E j \in 1 .. Len(map) : map[j].dateKey = dateKey
        THEN [j \in 1 .. Len(map) |->
                 IF map[j].dateKey = dateKey
                 THEN [map[j] EXCEPT !.amount = @ + expense.amount]
                 ELSE map[j]]
        ELSE Append(map, [dateKey |-> dateKey, amount |-> expense.amount])

RECURSIVE DailyExpenses(_, _)
\* lines 220-226
DailyExpenses(rows, trendStartDate) ==
    IF rows = <<>> THEN <<>>
    ELSE IntoDailyExpenses(DailyExpenses(SubSeq(rows, 1, Len(rows) - 1), trendStartDate),
                           rows[Len(rows)], trendStartDate)

\* dailyExpenses.get(dateKey) || 0
DailyGet(map, dateKey) ==
    IF \E j \in 1 .. Len(map) : map[j].dateKey = dateKey
    THEN map[CHOOSE j \in 1 .. Len(map) : map[j].dateKey = dateKey].amount
    ELSE 0

\* line 234: toLocaleDateString('en-US', { month: 'short', day: 'numeric' })
DayLabel(t, z) ==
    LET f == LocalFields(t, z)
    IN  [month |-> f.m, day |-> f.d]

\* lines 228-237: the loop runs i from daysInPeriod - 1 down to 0 and
\* pushes, so entry j of the array is the day i = daysInPeriod - j
TrendDataArray(rows, trendStartDate, endDate, z) ==
    LET dailyExpenses == DailyExpenses(rows, trendStartDate)
        daysInPeriod  == FloorDiv(endDate - trendStartDate, MinPerDay) + 1
        n == IF daysInPeriod > 0 THEN daysInPeriod ELSE 0
    IN  [j \in 1 .. n |->
            LET date == trendStartDate + (n - j) * MinPerDay
            IN  [date |-> DayLabel(date, z),
                 amount |-> DailyGet(dailyExpenses, IsoDate(date))]]

\* the days between the two instants, the first one not counted
DaysInRangeOpen(startDate, endDate) == FloorDiv(endDate - startDate, MinPerDay)

\* line 240
DaysInRange(startDate, endDate) == FloorDiv(endDate - startDate, MinPerDay) + 1

\* line 241
AverageDaily(totalExpenses, daysInRange) ==
    IF daysInRange > 0 THEN [num |-> totalExpenses, den |-> daysInRange] ELSE Zero

\* the rate divided out whatever the total budget is
SavingsRateBare(totalBudget, totalExpenses) ==
    [num |-> (totalBudget - totalExpenses) * 100, den |-> totalBudget]

\* line 242
SavingsRate(totalBudget, totalExpenses) ==
    IF totalBudget > 0
    THEN [num |-> (totalBudget - totalExpenses) * 100, den |-> totalBudget]
    ELSE Zero

\* lines 112-148: the clock is read, the window derived and the expenses
\* query sent with the window's two dates as toISOString().split('T')[0]
\* gives them
FetchReportsDataCall(range, month) ==
    LET w == ReportWindow(range, month, now, zone)
    IN  [pc |-> "expenses", expensesData |-> <<>>, currentDate |-> now,
         timeRange |-> range, customMonth |-> month,
         gte |-> IsoDate(w.startDate), lte |-> IsoDate(w.endDate)]

ReportNotice ==
    [Quiet EXCEPT !.read = "failed", !.toast = "Failed to load reports data",
                  !.log = "Error fetching reports data"]

\* lines 266-272: the effect starts fetchProfile and fetchReportsData, which
\* returns at once when custom_month has no month (lines 106-109) and
\* otherwise reads the clock and sends the expenses query (lines 112-148)
ReportsOpened ==
    /\ user # Null
    /\ rfetch.pc = "closed"
    /\ profile' = "inflight"
    /\ IF timeRange = "custom_month" /\ customMonth = NoMonth
       THEN /\ rfetch' = [rfetch EXCEPT !.pc = "idle"]
            /\ loading' = FALSE
       ELSE /\ rfetch' = FetchReportsDataCall(timeRange, customMonth)
            /\ UNCHANGED loading
    /\ io' = Quiet
    /\ UNCHANGED <<user, zone, now, dbBudgets, dbExpenses, dbCategories, settings, view, budgets,
                   fetches,
                   synced, readsOk, timeRange, customMonth, monthlyData, categoryData,
                   trendData, totalStats, reportInput, rolder, reportLog>>

\* fetchProfile, lines 83-102, from the reply on; when fetchReportsData has
\* returned too, Promise.all settles and .finally sets loading (line 269)
ProfileSettled(ok) ==
    /\ profile = "inflight"
    /\ profile' = "settled"
    /\ io' = IF ok THEN [Quiet EXCEPT !.read = "ok"]
             ELSE [Quiet EXCEPT !.read = "failed", !.toast = "Failed to load profile data",
                                !.log = "Error fetching profile"]
    /\ loading' = IF rfetch.pc \in {"expenses", "budgets"} THEN loading ELSE FALSE
    /\ UNCHANGED <<user, zone, now, dbBudgets, dbExpenses, dbCategories, settings, view, budgets,
                   fetches,
                   synced, readsOk, rfetch, timeRange, customMonth, monthlyData,
                   categoryData, trendData, totalStats, reportInput, rolder, reportLog>>

\* lines 150 and 254-263
ReportExpensesFailed ==
    /\ rfetch.pc = "expenses"
    /\ rfetch' = [rfetch EXCEPT !.pc = "idle"]
    /\ io' = ReportNotice
    /\ loading' = FALSE
    /\ UNCHANGED <<user, zone, now, dbBudgets, dbExpenses, dbCategories, settings, view, budgets,
                   fetches,
                   synced, readsOk, profile, timeRange, customMonth, monthlyData,
                   categoryData, trendData, totalStats, reportInput, rolder, reportLog>>

\* lines 138-158: the expenses arrived and the budgets query is sent
ReportExpensesReturned(rows) ==
    /\ rfetch.pc = "expenses"
    /\ rfetch' = [rfetch EXCEPT !.pc = "budgets", !.expensesData = rows]
    /\ io' = [Quiet EXCEPT !.read = "ok"]
    /\ UNCHANGED <<user, zone, now, dbBudgets, dbExpenses, dbCategories, settings, view, budgets,
                   fetches,
                   synced, readsOk, profile, timeRange, customMonth, loading, monthlyData,
                   categoryData, trendData, totalStats, reportInput, rolder, reportLog>>

\* lines 160 and 254-263
ReportBudgetsFailed ==
    /\ rfetch.pc = "budgets"
    /\ rfetch' = [rfetch EXCEPT !.pc = "idle", !.expensesData = <<>>]
    /\ io' = ReportNotice
    /\ loading' = FALSE
    /\ UNCHANGED <<user, zone, now, dbBudgets, dbExpenses, dbCategories, settings, view, budgets,
                   fetches,
                   synced, readsOk, profile, timeRange, customMonth, monthlyData,
                   categoryData, trendData, totalStats, reportInput, rolder, reportLog>>

\* what the call was given
InputOf(f, budgetData, delay) ==
    [shown |-> TRUE, expenses |-> f.expensesData, budgets |-> budgetData,
     currentDate |-> f.currentDate, dateNow |-> f.currentDate + delay,
     timeRange |-> f.timeRange, customMonth |-> f.customMonth]

\* a call that shows its totals and leaves the rows of the call before
ShowTotalsOnly(f, budgetData, delay) ==
    /\ totalStats' =
           [totalExpenses |-> TotalExpenses(f.expensesData),
            averageDaily |-> totalStats.averageDaily,
            totalBudget |-> TotalBudget(budgetData),
            savingsRate |-> totalStats.savingsRate]
    /\ reportInput' = InputOf(f, budgetData, delay)
    /\ reportLog' = Append(reportLog,
                           [input |-> reportInput',
                            output |-> [monthlyData |-> monthlyData,
                                        categoryData |-> categoryData,
                                        trendData |-> trendData,
                                        totalStats |-> totalStats']])
    /\ UNCHANGED <<monthlyData, categoryData, trendData>>

\* lines 162-252: the report is computed from the two replies of the call f
\* and shown by the four setters, which are called one after the other with
\* no await between them.  Date.now() of line 214 is read delay after
\* new Date() of line 112.
Show(f, budgetData, delay) ==
    LET expensesData  == f.expensesData
        w             == ReportWindow(f.timeRange, f.customMonth, f.currentDate, zone)
        totalExpenses == TotalExpenses(expensesData)
        totalBudget   == TotalBudget(budgetData)
        monthlyBudget == MonthlyBudget(totalBudget, f.timeRange, w.monthsBack)
        trendStart    == TrendStart(f.timeRange, w.startDate, f.currentDate + delay)
    IN  /\ monthlyData' = MonthlyDataArray(expensesData, monthlyBudget, zone)
        /\ categoryData' = CategoryDataArray(expensesData)
        /\ trendData' = TrendDataArray(expensesData, trendStart, w.endDate, zone)
        /\ totalStats' =
               [totalExpenses |-> totalExpenses,
                averageDaily |-> AverageDaily(totalExpenses,
                                              DaysInRange(w.startDate, w.endDate)),
                totalBudget |-> totalBudget,
                savingsRate |-> SavingsRate(totalBudget, totalExpenses)]
        /\ reportInput' = InputOf(f, budgetData, delay)
        /\ reportLog' = Append(reportLog,
                               [input |-> reportInput',
                                output |-> [monthlyData |-> monthlyData',
                                            categoryData |-> categoryData',
                                            trendData |-> trendData',
                                            totalStats |-> totalStats']])

\* lines 160-263: the budgets arrived; the report is computed and shown
ReportBudgetsReturned(budgetData, delay) ==
    /\ rfetch.pc = "budgets"
    /\ Show(rfetch, budgetData, delay)
    /\ rfetch' = [rfetch EXCEPT !.pc = "idle", !.expensesData = <<>>]
    /\ io' = [Quiet EXCEPT !.read = "ok"]
    /\ loading' = FALSE
    /\ UNCHANGED <<user, zone, now, dbBudgets, dbExpenses, dbCategories, settings, view, budgets,
                   fetches,
                   synced, readsOk, profile, timeRange, customMonth, rolder>>

(***************************************************************************)
(* The selectors of the reports view, which the page offers once loading   *)
(* is false, and the calls they start while earlier calls are in flight.   *)
(***************************************************************************)
MaxOlder == 1

\* the calls that may show a report in one run
MaxShown == 3

InFlight(f) == f.pc \in {"expenses", "budgets"}

\* line 76: the year and month of new Date() on the local clock
CurrentMonth(t, z) ==
    LET f == LocalFields(t, z)
    IN  [year |-> f.y, month |-> f.m]

\* lines 106-109: the call returns at once
ReturnsAtOnce(range, month) == range = "custom_month" /\ month = NoMonth

\* lines 266-272: the effect runs for the render that has the new range or
\* month, and again for the render that has the customMonth lines 72-81
\* set, when that is another one; these are the months of its runs
Runs(old, month) == IF month = old THEN <<month>> ELSE <<old, month>>

\* lines 104-148: the calls those runs send to the store, each with the
\* clock it read
Launched(range, months) ==
    LET sent == SelectSeq(months, LAMBDA m : ~ReturnsAtOnce(range, m))
    IN  [i \in 1 .. Len(sent) |-> FetchReportsDataCall(range, sent[i])]

\* the calls in flight, the latest one last
InFlightCalls == rolder \o (IF InFlight(rfetch) THEN <<rfetch>> ELSE <<>>)

\* the runs of the effect: every run starts fetchProfile, a run that returns
\* at once sets loading (line 107), a call that is sent becomes the latest
\* one while those before it stay in flight
Invocations(range, months, calls) ==
    /\ Len(InFlightCalls) + Len(calls) <= MaxOlder + 1
    /\ Len(InFlightCalls) + Len(calls) + Len(reportLog) <= MaxShown
    /\ rfetch' = IF calls = <<>> THEN rfetch ELSE calls[Len(calls)]
    /\ rolder' = IF calls = <<>> THEN rolder
                 ELSE InFlightCalls \o SubSeq(calls, 1, Len(calls) - 1)
    /\ loading' = IF \E i \in 1 .. Len(months) : ReturnsAtOnce(range, months[i])
                  THEN FALSE ELSE loading
    /\ profile' = "inflight"

\* lines 72-81: the customMonth the effect sets for the range
MonthFor(range) == IF range = "custom_month" THEN CurrentMonth(now, zone) ELSE NoMonth

\* line 366, onValueChange={setTimeRange}, with the effects that follow:
\* lines 72-81 set customMonth, and lines 266-272 run for the new range with
\* the customMonth of that render, then again when customMonth has changed
SelectTimeRange(range) ==
    /\ user # Null
    /\ ~loading
    /\ range # timeRange
    /\ timeRange' = range
    /\ customMonth' = MonthFor(range)
    /\ Invocations(range, Runs(customMonth, MonthFor(range)),
                   Launched(range, Runs(customMonth, MonthFor(range))))
    /\ io' = Quiet
    /\ UNCHANGED <<user, zone, now, dbBudgets, dbExpenses, dbCategories, settings, view, budgets,
                   fetches, synced, readsOk, monthlyData, categoryData, trendData,
                   totalStats, reportInput, reportLog>>

\* lines 378-386: the month input, shown for custom_month, is set or cleared;
\* lines 266-272 run for the new month
SetCustomMonth(month) ==
    /\ user # Null
    /\ ~loading
    /\ timeRange = "custom_month"
    /\ month # customMonth
    /\ customMonth' = month
    /\ Invocations(timeRange, <<month>>, Launched(timeRange, <<month>>))
    /\ io' = Quiet
    /\ UNCHANGED <<user, zone, now, dbBudgets, dbExpenses, dbCategories, settings, view, budgets,
                   fetches, synced, readsOk, timeRange, monthlyData, categoryData,
                   trendData, totalStats, reportInput, reportLog>>

\* rolder without the call at position k
Without(older, k) == SubSeq(older, 1, k - 1) \o SubSeq(older, k + 1, Len(older))

\* lines 150 and 254-263, for an earlier call
OlderExpensesFailed(k) ==
    /\ k \in 1 .. Len(rolder)
    /\ rolder[k].pc = "expenses"
    /\ rolder' = Without(rolder, k)
    /\ io' = ReportNotice
    /\ loading' = FALSE
    /\ UNCHANGED <<user, zone, now, dbBudgets, dbExpenses, dbCategories, settings, view, budgets,
                   fetches, synced, readsOk, rfetch, profile, timeRange, customMonth,
                   monthlyData, categoryData, trendData, totalStats, reportInput, reportLog>>

\* lines 138-158, for an earlier call
OlderExpensesReturned(k, rows) ==
    /\ k \in 1 .. Len(rolder)
    /\ rolder[k].pc = "expenses"
    /\ rolder' = [rolder EXCEPT ![k] = [@ EXCEPT !.pc = "budgets", !.expensesData = rows]]
    /\ io' = [Quiet EXCEPT !.read = "ok"]
    /\ UNCHANGED <<user, zone, now, dbBudgets, dbExpenses, dbCategories, settings, view, budgets,
                   fetches, synced, readsOk, rfetch, profile, timeRange, customMonth, loading,
                   monthlyData, categoryData, trendData, totalStats, reportInput, reportLog>>

\* lines 160 and 254-263, for an earlier call
OlderBudgetsFailed(k) ==
    /\ k \in 1 .. Len(rolder)
    /\ rolder[k].pc = "budgets"
    /\ rolder' = Without(rolder, k)
    /\ io' = ReportNotice
    /\ loading' = FALSE
    /\ UNCHANGED <<user, zone, now, dbBudgets, dbExpenses, dbCategories, settings, view, budgets,
                   fetches, synced, readsOk, rfetch, profile, timeRange, customMonth,
                   monthlyData, categoryData, trendData, totalStats, reportInput, reportLog>>

\* lines 160-263, for an earlier call: nothing in them asks whether a later
\* call has been started or has shown its report
OlderBudgetsReturned(k, budgetData, delay) ==
    /\ k \in 1 .. Len(rolder)
    /\ rolder[k].pc = "budgets"
    /\ Show(rolder[k], budgetData, delay)
    /\ rolder' = Without(rolder, k)
    /\ io' = [Quiet EXCEPT !.read = "ok"]
    /\ loading' = FALSE
    /\ UNCHANGED <<user, zone, now, dbBudgets, dbExpenses, dbCategories, settings, view, budgets,
                   fetches, synced, readsOk, rfetch, profile, timeRange, customMonth>>

\* the replies of the store to the two queries of the earlier call k
OlderExpensesAnswer(k) == SelectReportExpenses(user, rolder[k].gte, rolder[k].lte)

OlderBudgetsAnswer(k) ==
    SelectReportBudgets(user, rolder[k].timeRange, rolder[k].gte, rolder[k].lte)

(***************************************************************************)
(* The cards of the budgets view, over budgets and expenses that put the   *)
(* progress below, at and above 80 and 100.                                *)
(***************************************************************************)
StatusAmounts == {100, 5}

StatusExpenses ==
    { Expense(1, "u1", D(2024, 3, 1), Null, 79),
      Expense(2, "u1", D(2024, 3, 2), Null, 1),
      Expense(3, "u1", D(2024, 3, 3), Null, 20),
      Expense(4, "u1", D(2024, 3, 4), Null, 21),
      Expense(5, "u1", D(2024, 3, 5), Null, 4),
      Expense(6, "u1", D(2024, 3, 6), Null, -5) }

InitStatus ==
    /\ user = Null
    /\ zone = 0
    /\ now = ClockStart
    /\ \E amount \in StatusAmounts :
          dbBudgets = {[Budget(1, "u1", "monthly", D(2024, 3, 1), D(2024, 3, 31), Null)
                           EXCEPT !.amount = amount]}
    /\ dbExpenses \in {S \in SUBSET StatusExpenses : Cardinality(S) <= MaxStored}
    /\ dbCategories = StoredCategories
    /\ settings = SettingsClosed
    /\ view = ViewClosed(now)
    /\ budgets = <<>>
    /\ fetches = [s \in Slots |-> Idle]
    /\ io = Quiet
    /\ synced = FALSE
    /\ readsOk = TRUE
    /\ ReportsClosed

NextStatus ==
    \/ SignIn
    \/ \E s \in Slots : BudgetsFailed(s)
    \/ \E s \in Slots : BudgetsReturned(s)
    \/ \E s \in Slots, i \in 1 .. MaxRows, ok \in BOOLEAN : ExpensesSettled(s, i, ok)
    \/ \E ok \in BOOLEAN : BudgetCategoriesSettled(ok)

SpecStatus == InitStatus /\ [][NextStatus]_vars

(***************************************************************************)
(* The reports view over what the store may return: up to MaxCategories    *)
(* categories, each with one or two expenses, and expenses of no category. *)
(***************************************************************************)
MaxCategories == 7

CategoryNames == <<"Food", "Travel", "Rent", "Health", "Fun", "Bills", "Gifts", "Pets">>

AmountLists == {<<0>>, <<2>>, <<1, 2>>}

UncategorizedLists == {<<>>, <<3>>}

RowsOf(cat, amounts) == [j \in 1 .. Len(amounts) |-> ReportRow(amounts[j], cat)]

RECURSIVE Categorized(_, _)
Categorized(k, f) ==
    IF k = 0 THEN <<>>
    ELSE Categorized(k - 1, f) \o RowsOf(Category(CategoryNames[k]), f[k])

ExpenseReplies ==
    UNION {{Categorized(k, f) \o RowsOf(NoCategory, u) :
              f \in [1 .. k -> AmountLists], u \in UncategorizedLists} :
           k \in 0 .. MaxCategories}

BudgetReplies == {<<>>, <<[amount |-> 100]>>}

\* the time the two reads take, in minutes, when it is short
ShortDelay == 1

InitReports ==
    /\ user = "u1"
    /\ zone = 0
    /\ now = ClockStart
    /\ dbBudgets = {}
    /\ dbExpenses = {}
    /\ dbCategories = StoredCategories
    /\ settings = SettingsClosed
    /\ view = ViewClosed(now)
    /\ budgets = <<>>
    /\ fetches = [s \in Slots |-> Idle]
    /\ io = Quiet
    /\ synced = FALSE
    /\ readsOk = TRUE
    /\ ReportsClosed

NextReports ==
    \/ ReportsOpened
    \/ ReportExpensesFailed
    \/ rfetch.pc = "expenses" /\ \E rows \in ExpenseReplies : ReportExpensesReturned(rows)
    \/ ReportBudgetsFailed
    \/ rfetch.pc = "budgets" /\ \E budgetData \in BudgetReplies :
                                 ReportBudgetsReturned(budgetData, ShortDelay)

SpecReports == InitReports /\ [][NextReports]_vars

(***************************************************************************)
(* The reports view over a store with dated rows: the effect of lines      *)
(* 266-272 is about to run for a range the user has selected (at mount the *)
(* range is '6months' and loading is still true).                          *)
(***************************************************************************)
TimeRanges == {"this_month", "last_month", "custom_month", "3months", "6months", "12months"}

CustomMonths == {NoMonth, [year |-> 2024, month |-> 2]}

WindowClocks == {ClockStart, ParseDate(D(2024, 3, 31)) + 21 * 60}

\* the time the two reads take when it runs past midnight UTC
LongDelay == 4 * 60

Delays == {ShortDelay, LongDelay}

WindowExpenses ==
    { Expense(1, "u1", D(2024, 3, 1), "c1", 1),
      Expense(2, "u1", D(2024, 3, 31), "c2", 2),
      Expense(3, "u1", D(2024, 2, 29), Null, 4),
      Expense(4, "u1", D(2024, 2, 9), "c1", 8),
      Expense(5, "u1", D(2024, 3, 10), "c2", 16),
      Expense(6, "u1", D(2024, 2, 1), "c1", 32) }

WindowBudgets ==
    { [Budget(1, "u1", "monthly", D(2024, 3, 1), D(2024, 3, 31), Null) EXCEPT !.amount = 10],
      [Budget(2, "u1", "monthly", D(2024, 2, 1), D(2024, 2, 29), Null) EXCEPT !.amount = 50],
      Budget(3, "u1", "monthly", D(2024, 3, 1), NoDate, "c1") }

\* the replies of the store to the two queries of the call in flight
ReportExpensesAnswer == SelectReportExpenses(user, rfetch.gte, rfetch.lte)

ReportBudgetsAnswer == SelectReportBudgets(user, rfetch.timeRange, rfetch.gte, rfetch.lte)

InitWindow ==
    /\ user = "u1"
    /\ zone \in TimeZones
    /\ now \in WindowClocks
    /\ dbBudgets \in {S \in SUBSET WindowBudgets : Cardinality(S) <= MaxBudgets}
    /\ dbExpenses \in {S \in SUBSET WindowExpenses : Cardinality(S) <= MaxStored}
    /\ dbCategories = StoredCategories
    /\ settings = SettingsClosed
    /\ view = ViewClosed(now)
    /\ budgets = <<>>
    /\ fetches = [s \in Slots |-> Idle]
    /\ io = Quiet
    /\ synced = FALSE
    /\ readsOk = TRUE
    /\ rfetch = NoReport
    /\ profile = "closed"
    /\ timeRange \in TimeRanges
    /\ customMonth \in (IF timeRange = "custom_month" THEN CustomMonths ELSE {NoMonth})
    /\ loading = (timeRange = "6months")
    /\ monthlyData = <<>>
    /\ categoryData = <<>>
    /\ trendData = <<>>
    /\ totalStats = NoStats
    /\ reportInput = NoInput
    /\ rolder = <<>>
    /\ reportLog = <<>>

NextWindow ==
    \/ ReportsOpened
    \/ \E ok \in BOOLEAN : ProfileSettled(ok)
    \/ ReportExpensesFailed
    \/ rfetch.pc = "expenses" /\ \E rows \in ReportExpensesAnswer : ReportExpensesReturned(rows)
    \/ ReportBudgetsFailed
    \/ rfetch.pc = "budgets" /\ \E delay \in Delays :
                                 ReportBudgetsReturned(ReportBudgetsAnswer, delay)

SpecWindow == InitWindow /\ [][NextWindow]_vars

(***************************************************************************)
(* The reports view while the user changes the range and the month, over   *)
(* one store and one clock.                                                *)
(***************************************************************************)
SelectRanges == {"6months", "this_month", "custom_month"}

SelectMonths == {NoMonth, [year |-> 2024, month |-> 2]}

RangeExpenses ==
    { Expense(1, "u1", D(2024, 3, 1), "c1", 1),
      Expense(2, "u1", D(2024, 2, 20), Null, 8) }

InitSelect ==
    /\ user = "u1"
    /\ zone = 0
    /\ now = ClockStart
    /\ dbBudgets = {[Budget(1, "u1", "monthly", D(2024, 3, 1), D(2024, 3, 31), Null)
                        EXCEPT !.amount = 10]}
    /\ dbExpenses = RangeExpenses
    /\ dbCategories = StoredCategories
    /\ settings = SettingsClosed
    /\ view = ViewClosed(now)
    /\ budgets = <<>>
    /\ fetches = [s \in Slots |-> Idle]
    /\ io = Quiet
    /\ synced = FALSE
    /\ readsOk = TRUE
    /\ ReportsClosed

NextSelect ==
    \/ ReportsOpened
    \/ \E ok \in BOOLEAN : ProfileSettled(ok)
    \/ ReportExpensesFailed
    \/ rfetch.pc = "expenses" /\ \E rows \in ReportExpensesAnswer : ReportExpensesReturned(rows)
    \/ ReportBudgetsFailed
    \/ rfetch.pc = "budgets" /\ ReportBudgetsReturned(ReportBudgetsAnswer, ShortDelay)
    \/ \E range \in SelectRanges : SelectTimeRange(range)
    \/ \E month \in SelectMonths : SetCustomMonth(month)
    \/ \E k \in 1 .. MaxOlder : OlderExpensesFailed(k)
    \/ \E k \in 1 .. MaxOlder :
          /\ k <= Len(rolder)
          /\ rolder[k].pc = "expenses"
          /\ \E rows \in OlderExpensesAnswer(k) : OlderExpensesReturned(k, rows)
    \/ \E k \in 1 .. MaxOlder : OlderBudgetsFailed(k)
    \/ \E k \in 1 .. MaxOlder :
          /\ k <= Len(rolder)
          /\ rolder[k].pc = "budgets"
          /\ OlderBudgetsReturned(k, OlderBudgetsAnswer(k), ShortDelay)

SpecSelect == InitSelect /\ [][NextSelect]_vars

(***************************************************************************)
(* The same, with every read answered: the calls in flight settle in any   *)
(* order.                                                                  *)
(***************************************************************************)
NextLatest ==
    \/ ReportsOpened
    \/ ProfileSettled(TRUE)
    \/ rfetch.pc = "expenses" /\ \E rows \in ReportExpensesAnswer : ReportExpensesReturned(rows)
    \/ rfetch.pc = "budgets" /\ ReportBudgetsReturned(ReportBudgetsAnswer, ShortDelay)
    \/ \E range \in SelectRanges : SelectTimeRange(range)
    \/ \E month \in SelectMonths : SetCustomMonth(month)
    \/ \E k \in 1 .. MaxOlder :
          /\ k <= Len(rolder)
          /\ rolder[k].pc = "expenses"
          /\ \E rows \in OlderExpensesAnswer(k) : OlderExpensesReturned(k, rows)
    \/ \E k \in 1 .. MaxOlder :
          /\ k <= Len(rolder)
          /\ rolder[k].pc = "budgets"
          /\ OlderBudgetsReturned(k, OlderBudgetsAnswer(k), ShortDelay)

SpecLatest == InitSelect /\ [][NextLatest]_vars

(***************************************************************************)
(* Both views from sign-in on, with every read answered sooner or later,   *)
(* with data or with an error: a request that has been sent gets its       *)
(* reply.  The budgets view is mounted at sign-in, the reports view when   *)
(* the user opens it; there the user may select custom_month and clear the *)
(* month.                                                                  *)
(***************************************************************************)
LoadingRanges == {"custom_month"}

LoadingMonths == {NoMonth}

InitLoading ==
    /\ user = Null
    /\ zone = 0
    /\ now = ClockStart
    /\ dbBudgets = {[Budget(1, "u1", "monthly", D(2024, 3, 1), D(2024, 3, 31), Null)
                        EXCEPT !.amount = 10]}
    /\ dbExpenses = RangeExpenses
    /\ dbCategories = StoredCategories
    /\ settings = SettingsClosed
    /\ view = ViewClosed(now)
    /\ budgets = <<>>
    /\ fetches = [s \in Slots |-> Idle]
    /\ io = Quiet
    /\ synced = FALSE
    /\ readsOk = TRUE
    /\ ReportsClosed

BudgetsReplies ==
    \/ \E s \in Slots : BudgetsFailed(s)
    \/ \E s \in Slots : BudgetsReturned(s)
    \/ \E s \in Slots, i \in 1 .. MaxBudgets, ok \in BOOLEAN : ExpensesSettled(s, i, ok)

BudgetCategoriesReplies == \E ok \in BOOLEAN : BudgetCategoriesSettled(ok)

ProfileReplies == \E ok \in BOOLEAN : ProfileSettled(ok)

ReportReplies ==
    \/ ReportExpensesFailed
    \/ rfetch.pc = "expenses" /\ \E rows \in ReportExpensesAnswer : ReportExpensesReturned(rows)
    \/ ReportBudgetsFailed
    \/ rfetch.pc = "budgets" /\ ReportBudgetsReturned(ReportBudgetsAnswer, ShortDelay)

NextLoading ==
    \/ SignIn
    \/ BudgetsReplies
    \/ BudgetCategoriesReplies
    \/ ReportsOpened
    \/ ProfileReplies
    \/ ReportReplies
    \/ \E range \in LoadingRanges : SelectTimeRange(range)
    \/ \E month \in LoadingMonths : SetCustomMonth(month)

SpecLoading ==
    /\ InitLoading
    /\ [][NextLoading]_vars
    /\ WF_vars(BudgetsReplies)
    /\ WF_vars(BudgetCategoriesReplies)
    /\ WF_vars(ProfileReplies)
    /\ WF_vars(ReportReplies)

(***************************************************************************)
(* The store under every view that writes it: categories on the settings   *)
(* view, budgets on the budgets view, expenses on the expenses page.       *)
(***************************************************************************)
StoreFormCategories == {"", "c1", "c2"}

StoreForms ==
    { [name |-> "Rent", amount |-> 100, period |-> "monthly", category_id |-> c,
       start_date |-> D(2024, 3, 1)] : c \in StoreFormCategories }

StoreExpenses ==
    { Expense(1, "u1", D(2024, 3, 1), "c1", 5),
      Expense(2, "u1", D(2024, 3, 8), Null, 7),
      Expense(3, "u1", D(2024, 3, 9), "c2", 9) }

\* the rows the expenses page can hold: as they were added, or with the
\* category reference the store has set to null
StoreExpenseRows ==
    StoreExpenses \cup {[e EXCEPT !.category_id = Null] : e \in StoreExpenses}

InitStore ==
    /\ user = Null
    /\ zone = 0
    /\ now = ClockStart
    /\ dbBudgets = {}
    /\ dbExpenses = {}
    /\ dbCategories = {}
    /\ settings = SettingsClosed
    /\ view = ViewClosed(now)
    /\ budgets = <<>>
    /\ fetches = [s \in Slots |-> Idle]
    /\ io = Quiet
    /\ synced = FALSE
    /\ readsOk = TRUE
    /\ ReportsClosed

\* the reads of the budgets view are answered: they leave the store as it is
NextStore ==
    \/ SignIn
    \/ \E s \in Slots : BudgetsReturned(s)
    \/ \E s \in Slots, i \in 1 .. MaxBudgets : ExpensesSettled(s, i, TRUE)
    \/ BudgetCategoriesSettled(TRUE)
    \/ setIsAddDialogOpen(TRUE)
    \/ \E form \in StoreForms : setAddFormData(form)
    \/ \E ok \in BOOLEAN : handleAddBudget(ok)
    \/ \E i \in 1 .. MaxBudgets, ok \in BOOLEAN : handleDeleteBudget(i, ok)
    \/ \E e \in StoreExpenses : AddExpense(e)
    \/ \E e \in StoreExpenseRows : DeleteExpense(e)
    \/ SettingsOpened
    \/ \E ok \in BOOLEAN : CategoriesSettled(ok)
    \/ \E name \in FormCategoryNames, id \in CategoryIds, ok \in BOOLEAN :
          handleAddCategory(name, id, ok)
    \/ \E i \in 1 .. MaxCategoryRows, ok \in BOOLEAN : handleDeleteCategory(i, ok)

SpecStore == InitStore /\ [][NextStore]_vars


(***************************************************************************)
(* The calendar, as the claims speak of it.                                *)
(***************************************************************************)
IsLeap(y) == (y % 4 = 0 /\ y % 100 # 0) \/ y % 400 = 0

DaysInMonth(y, m) ==
    IF m = 2 THEN (IF IsLeap(y) THEN 29 ELSE 28)
    ELSE IF m \in {4, 6, 9, 11} THEN 30 ELSE 31

NextDay(d) ==
    IF d.d < DaysInMonth(d.y, d.m) THEN D(d.y, d.m, d.d + 1)
    ELSE IF d.m < 12 THEN D(d.y, d.m + 1, 1)
    ELSE D(d.y + 1, 1, 1)

RECURSIVE PlusDays(_, _)
PlusDays(d, n) ==
    IF n = 0 THEN d
    ELSE LET next == NextDay(d)
         IN  IF next.d >= 1 THEN PlusDays(next, n - 1) ELSE next

LastDayOfMonth(d) == D(d.y, d.m, DaysInMonth(d.y, d.m))

\* yyyymmdd: dates compare as these numbers do
Ordinal(d) == d.y * 10000 + d.m * 100 + d.d

\* a fetchBudgets call has sent the expenses query of its row i
Sent(s, i) == fetches[s].pc = "expenses" /\ i \in 1 .. Len(fetches[s].rows)

Derived(s, i, period) ==
    /\ Sent(s, i)
    /\ fetches[s].rows[i].period = period
    /\ fetches[s].rows[i].end_date = NoDate

(***************************************************************************)
(* C1: for a monthly budget with no end_date, the upper expense_date bound *)
(* that fetchBudgets sends is the last calendar day of the month of        *)
(* start_date.                                                             *)
(***************************************************************************)
C1_MonthlyEndIsLastDayOfStartMonth ==
    \A s \in Slots, i \in 1 .. MaxRows :
        Derived(s, i, "monthly") =>
            fetches[s].lte[i] = LastDayOfMonth(fetches[s].rows[i].start_date)

(***************************************************************************)
(* C2: for a weekly budget with no end_date, the upper expense_date bound  *)
(* is the calendar date 7 days after start_date.                           *)
(***************************************************************************)
C2_WeeklyEndIsStartPlusSeven ==
    \A s \in Slots, i \in 1 .. MaxRows :
        Derived(s, i, "weekly") =>
            fetches[s].lte[i] = PlusDays(fetches[s].rows[i].start_date, 7)

\* a weekly window that crosses the end of a year, in a zone east of UTC
C2_Witness ==
    \E s \in Slots, i \in 1 .. MaxRows :
        /\ Derived(s, i, "weekly")
        /\ zone > 0
        /\ fetches[s].rows[i].start_date = D(2023, 12, 28)
        /\ fetches[s].lte[i] = D(2024, 1, 4)

(***************************************************************************)
(* C3: for a yearly budget with no end_date, the upper expense_date bound  *)
(* is start_date with the year incremented by 1, same month and day.       *)
(***************************************************************************)
C3_YearlyEndIsSameDayNextYear ==
    \A s \in Slots, i \in 1 .. MaxRows :
        Derived(s, i, "yearly") =>
            LET d == fetches[s].rows[i].start_date
            IN  fetches[s].lte[i] = D(d.y + 1, d.m, d.d)

(***************************************************************************)
(* C4: for a budget with an end_date, whatever its period, the upper       *)
(* expense_date bound is that end_date.                                    *)
(***************************************************************************)
C4_GivenEndIsSentVerbatim ==
    \A s \in Slots, i \in 1 .. MaxRows :
        (Sent(s, i) /\ fetches[s].rows[i].end_date # NoDate) =>
            fetches[s].lte[i] = fetches[s].rows[i].end_date

\* an end_date on a budget of unrecognised period, in a zone away from UTC,
\* where the period's own rule gives another date
C4_Witness ==
    \E s \in Slots, i \in 1 .. MaxRows :
        /\ Sent(s, i)
        /\ zone # 0
        /\ fetches[s].rows[i].period = "daily"
        /\ fetches[s].rows[i].end_date = D(2024, 3, 31)
        /\ fetches[s].lte[i] = D(2024, 3, 31)
        /\ IsoDate(now) # D(2024, 3, 31)


(***************************************************************************)
(* Sums, as the claims speak of them.                                      *)
(***************************************************************************)
RECURSIVE Total(_)
Total(S) ==
    IF S = {} THEN 0
    ELSE LET e == CHOOSE x \in S : \A z \in S : x.id <= z.id
         IN  e.amount + Total(S \ {e})

\* the user's expenses dated from the budget's start_date to end, both
\* included, of the budget's category when it has one
WindowSum(b, end) ==
    Total({e \in dbExpenses :
              /\ e.user_id = user
              /\ Ordinal(b.start_date) <= Ordinal(e.expense_date)
              /\ Ordinal(e.expense_date) <= Ordinal(end)
              /\ (b.category_id = Null \/ e.category_id = b.category_id)})

Today == IsoDate(now)

Unrecognised(b) == b.period \notin {"weekly", "monthly", "yearly"} /\ b.end_date = NoDate

(***************************************************************************)
(* C5: for a budget with no end_date and a period that is none of weekly,  *)
(* monthly, yearly, the upper expense_date bound is the current date, and  *)
(* once the fetch has set the displayed list the budget is in it with      *)
(* spent the sum of its expenses from start_date to today.                 *)
(***************************************************************************)
C5_UnrecognisedPeriodEndsToday ==
    /\ \A s \in Slots, i \in 1 .. MaxRows :
          (Sent(s, i) /\ Unrecognised(fetches[s].rows[i])) => fetches[s].lte[i] = Today
    /\ synced =>
          \A b \in dbBudgets :
              (b.user_id = user /\ Unrecognised(b)) =>
                  \E i \in 1 .. Len(budgets) :
                      budgets[i].id = b.id /\ budgets[i].spent = WindowSum(b, Today)

(***************************************************************************)
(* C6: after a fetchBudgets in which no read failed, each displayed        *)
(* budget's spent is the sum of the user's expenses dated from start_date  *)
(* to the resolved end, both included, of the budget's category when it    *)
(* has one and of any category when it has none.                           *)
(***************************************************************************)
C6_SpentIsSumOverInclusiveWindow ==
    (synced /\ readsOk) =>
        \A i \in 1 .. Len(budgets) :
            budgets[i].spent = WindowSum(budgets[i], IsoDate(ResolveEnd(budgets[i], now, zone)))

\* two budgets shown: the weekly one of category c1 counts the c1 expense of
\* its first day and not the expense of no category; the one that ends on
\* 8 March and has no category counts both, the second being dated 8 March
C6_Witness ==
    /\ synced /\ readsOk
    /\ Len(budgets) = 2
    /\ dbExpenses = {Expense(1, "u1", D(2024, 3, 1), "c1", 1),
                     Expense(2, "u1", D(2024, 3, 8), Null, 2)}
    /\ \E i, j \in 1 .. 2 :
          /\ budgets[i].id = 2 /\ budgets[i].category_id = "c1" /\ budgets[i].spent = 1
          /\ budgets[j].id = 3 /\ budgets[j].end_date = D(2024, 3, 8) /\ budgets[j].spent = 3

(***************************************************************************)
(* C7: no insert or update sent by the budgets view has a spent field, and *)
(* when a fetchBudgets that read the store as it is now has set the        *)
(* displayed list, every displayed spent is the sum the store's expenses   *)
(* give for that budget's window and category.                             *)
(***************************************************************************)
C7_SpentIsRecomputedNeverStored ==
    /\ "spent" \notin io.sent
    /\ synced =>
          \A i \in 1 .. Len(budgets) :
              budgets[i].spent =
                  WindowSum(budgets[i], IsoDate(ResolveEnd(budgets[i], now, zone)))

(***************************************************************************)
(* C8: a step in which a store read of the budgets or reports view fails   *)
(* shows a failure notice and logs the error.                              *)
(***************************************************************************)
FailureNotices == {"Failed to load budgets", "Failed to load reports data"}

C8_FailedReadIsLoggedAndShown ==
    io.read = "failed" => (io.toast \in FailureNotices /\ io.log # Null)

(***************************************************************************)
(* C9: the percentages of the category breakdown sum to at most 100, and   *)
(* to exactly 100 when the expenses have at most 6 distinct categories and *)
(* their total is positive.  (Each percentage is num / totalExpenses, so   *)
(* the sum is compared after multiplying by totalExpenses.)                *)
(***************************************************************************)
RECURSIVE PercentTimesTotal(_, _)
PercentTimesTotal(rows, total) ==
    IF rows = <<>> THEN 0
    ELSE PercentTimesTotal(Tail(rows), total)
             + (Head(rows).percentage.num * total) \div Head(rows).percentage.den

DistinctCategories(rows) ==
    {rows[j].categories.name : j \in {k \in 1 .. Len(rows) : rows[k].categories # NoCategory}}

C9_PercentagesSumToHundred ==
    reportInput.shown =>
        LET total == totalStats.totalExpenses
            sum   == PercentTimesTotal(categoryData, total)
        IN  /\ sum <= 100 * total
            /\ (Cardinality(DistinctCategories(reportInput.expenses)) <= 6 /\ total > 0)
                   => sum = 100 * total

(***************************************************************************)
(* C10: an expense with no category is counted in an 'uncategorized' row   *)
(* of the category breakdown, and when nothing is truncated the amounts of *)
(* the rows add up to the amounts of all the expenses.                     *)
(***************************************************************************)
RECURSIVE RowAmounts(_)
RowAmounts(rows) == IF rows = <<>> THEN 0 ELSE Head(rows).amount + RowAmounts(Tail(rows))

HasUncategorized(rows) == \E j \in 1 .. Len(rows) : rows[j].categories = NoCategory

C10_UncategorizedExpensesHaveARow ==
    reportInput.shown =>
        /\ HasUncategorized(reportInput.expenses) =>
               \E k \in 1 .. Len(categoryData) :
                   categoryData[k].name \in {"uncategorized", "Uncategorized"}
        /\ Cardinality(DistinctCategories(reportInput.expenses))
               + (IF HasUncategorized(reportInput.expenses) THEN 1 ELSE 0) <= 6
               => RowAmounts(categoryData) = RowAmounts(reportInput.expenses)

(***************************************************************************)
(* C11: the category breakdown has one row per distinct category name,     *)
(* carrying the summed amount of that category, in descending order of     *)
(* amount; it has the 6 largest only: with more than 6 categories the      *)
(* others are dropped, none merged into a kept row, and no dropped         *)
(* category has a larger amount than a kept one.                           *)
(***************************************************************************)
OfCategory(rows, name) ==
    SelectSeq(rows, LAMBDA r : r.categories # NoCategory /\ r.categories.name = name)

Kept == {categoryData[k].name : k \in 1 .. Len(categoryData)}

C11_BreakdownIsTopSixByAmount ==
    reportInput.shown =>
        LET all == DistinctCategories(reportInput.expenses)
        IN  /\ Kept \subseteq all
            /\ Cardinality(Kept) = Len(categoryData)
            /\ Len(categoryData) = (IF Cardinality(all) > 6 THEN 6 ELSE Cardinality(all))
            /\ \A k \in 1 .. Len(categoryData) :
                  categoryData[k].amount
                      = RowAmounts(OfCategory(reportInput.expenses, categoryData[k].name))
            /\ \A k \in 1 .. Len(categoryData) - 1 :
                  categoryData[k].amount >= categoryData[k + 1].amount
            /\ \A name \in all \ Kept : \A k \in 1 .. Len(categoryData) :
                  RowAmounts(OfCategory(reportInput.expenses, name)) <= categoryData[k].amount

\* seven categories, the first of the reply being the smallest: it is the
\* one dropped, and the six rows shown run from amount 3 down to amount 2
C11_Witness ==
    /\ reportInput.shown
    /\ Cardinality(DistinctCategories(reportInput.expenses)) = 7
    /\ Len(categoryData) = 6
    /\ "Food" \notin Kept
    /\ RowAmounts(OfCategory(reportInput.expenses, "Food")) = 0
    /\ categoryData[1].amount = 3
    /\ categoryData[1].name # "Travel"
    /\ categoryData[6].amount = 2

(***************************************************************************)
(* The report window and the trend window, as the claims speak of them:    *)
(* calendar days on the user's clock.                                      *)
(***************************************************************************)
PrevDay(d) ==
    IF d.d > 1 THEN D(d.y, d.m, d.d - 1)
    ELSE IF d.m > 1 THEN D(d.y, d.m - 1, DaysInMonth(d.y, d.m - 1))
    ELSE D(d.y - 1, 12, 31)

RECURSIVE MinusDays(_, _)
MinusDays(d, n) ==
    IF n = 0 THEN d
    ELSE LET prev == PrevDay(d)
         IN  IF prev.d >= 1 THEN MinusDays(prev, n - 1) ELSE prev

RECURSIVE DaysFromTo(_, _)
\* the number of days of [a, b], both included
DaysFromTo(a, b) ==
    IF a.y = b.y /\ a.m = b.m THEN b.d - a.d + 1
    ELSE LET next == IF a.m < 12 THEN D(a.y, a.m + 1, 1) ELSE D(a.y + 1, 1, 1)
         IN  (DaysInMonth(a.y, a.m) - a.d + 1) + DaysFromTo(next, b)

MonthsBefore(y, m, n) ==
    LET k == y * 12 + (m - 1) - n
    IN  [year |-> k \div 12, month |-> (k % 12) + 1]

\* today, when the displayed report was asked for
ShownToday == LocalFields(reportInput.currentDate, zone)

ShownSingle == reportInput.timeRange \in {"this_month", "last_month", "custom_month"}

ShownMonths ==
    IF reportInput.timeRange = "6months" THEN 6
    ELSE IF reportInput.timeRange = "12months" THEN 12
    ELSE IF ShownSingle THEN 1 ELSE 3

\* the month of this_month, last_month and custom_month; for the other
\* ranges the month the window starts in
ShownMonth ==
    IF reportInput.timeRange = "this_month" THEN MonthsBefore(ShownToday.y, ShownToday.m, 0)
    ELSE IF reportInput.timeRange = "last_month"
    THEN MonthsBefore(ShownToday.y, ShownToday.m, 1)
    ELSE IF reportInput.timeRange = "custom_month" THEN reportInput.customMonth
    ELSE MonthsBefore(ShownToday.y, ShownToday.m, ShownMonths)

WindowFirst == D(ShownMonth.year, ShownMonth.month, 1)

WindowLast ==
    IF ShownSingle THEN LastDayOfMonth(WindowFirst) ELSE ShownToday

\* the trend of a single month covers the month; the trend of the other
\* ranges covers the 30 days before the day the trend is computed
TrendLength ==
    IF ShownSingle THEN DaysInMonth(ShownMonth.year, ShownMonth.month) ELSE 30

TrendFirst ==
    IF ShownSingle THEN WindowFirst
    ELSE MinusDays(LocalFields(reportInput.dateNow, zone), 30)

TrendDay(k) == PlusDays(TrendFirst, k)

DayLabelOf(d) == [month |-> d.m, day |-> d.d]

\* the fetched expenses dated on the day an entry is labelled with
OnDay(label) ==
    SelectSeq(reportInput.expenses,
              LAMBDA r : r.expense_date.m = label.month /\ r.expense_date.d = label.day)

(***************************************************************************)
(* C12: the daily trend has exactly one entry per calendar day of its      *)
(* window: as many entries as the selected month has days for this_month,  *)
(* last_month and custom_month, and 30 for the other ranges; an entry of a *)
(* day on which no fetched expense is dated has amount 0.                  *)
(***************************************************************************)
C12_TrendHasOneEntryPerDay ==
    reportInput.shown =>
        /\ Len(trendData) = TrendLength
        /\ {trendData[j].date : j \in 1 .. Len(trendData)}
               = {DayLabelOf(TrendDay(k)) : k \in 0 .. TrendLength - 1}
        /\ \A j \in 1 .. Len(trendData) :
               OnDay(trendData[j].date) = <<>> => trendData[j].amount = 0

(***************************************************************************)
(* C13: the entries of the daily trend are in chronological order: the     *)
(* first is the first day of the trend window and each next entry is the   *)
(* day after the one before it.                                            *)
(***************************************************************************)
C13_TrendIsChronological ==
    reportInput.shown =>
        \A j \in 1 .. Len(trendData) : trendData[j].date = DayLabelOf(TrendDay(j - 1))

(***************************************************************************)
(* C14: each entry of the daily trend has the sum of the fetched expenses  *)
(* dated on its day, the first and the last day of the trend window        *)
(* included, so the entries add up to the fetched expenses dated on a day  *)
(* of the trend window.                                                    *)
(***************************************************************************)
InTrendWindow ==
    SelectSeq(reportInput.expenses,
              LAMBDA r : \E k \in 0 .. TrendLength - 1 : r.expense_date = TrendDay(k))

C14_TrendSumsTheExpensesOfEachDay ==
    reportInput.shown =>
        /\ \A j \in 1 .. Len(trendData) :
               trendData[j].amount = RowAmounts(OnDay(trendData[j].date))
        /\ RowAmounts(trendData) = RowAmounts(InTrendWindow)

(***************************************************************************)
(* C15: a ratio of the report whose denominator is 0 is the number 0: a    *)
(* category percentage when the expenses total 0, averageDaily when the    *)
(* window has 0 days, savingsRate when the total budget is 0; and no ratio *)
(* shown is a non-number.                                                  *)
(***************************************************************************)
IsNumber(r) == r.den # 0

IsZeroNumber(r) == r.num = 0 /\ r.den # 0

C15_RatiosAreZeroOverZero ==
    /\ \A total \in {0, 1, 7} : IsZeroNumber(AverageDaily(total, 0))
    /\ reportInput.shown =>
          /\ RowAmounts(reportInput.expenses) = 0 =>
                 \A k \in 1 .. Len(categoryData) : IsZeroNumber(categoryData[k].percentage)
          /\ RowAmounts(reportInput.budgets) = 0 => IsZeroNumber(totalStats.savingsRate)
          /\ \A k \in 1 .. Len(categoryData) : IsNumber(categoryData[k].percentage)
          /\ IsNumber(totalStats.averageDaily)
          /\ IsNumber(totalStats.savingsRate)

\* a report of expenses that are all of amount 0, in two categories, with no
\* budget: the percentages and the savings rate divide by 0
C15_Witness ==
    /\ reportInput.shown
    /\ Len(reportInput.expenses) = 2
    /\ RowAmounts(reportInput.expenses) = 0
    /\ Len(categoryData) = 2
    /\ reportInput.budgets = <<>>
    /\ totalStats.savingsRate = Zero

(***************************************************************************)
(* C16: averageDaily is totalExpenses divided by the number of days of the *)
(* report window, first and last day included; with a positive total       *)
(* budget savingsRate is (totalBudget - totalExpenses) / totalBudget * 100;*)
(* it is negative exactly when totalExpenses > totalBudget > 0 and it is   *)
(* never more than 100.                                                    *)
(***************************************************************************)
C16_AverageAndSavingsRate ==
    reportInput.shown =>
        LET expenses == RowAmounts(reportInput.expenses)
            budget   == RowAmounts(reportInput.budgets)
            days     == DaysFromTo(WindowFirst, WindowLast)
            average  == totalStats.averageDaily
            rate     == totalStats.savingsRate
        IN  /\ average.den > 0 /\ rate.den > 0
            /\ average.num * days = expenses * average.den
            /\ budget > 0 => rate.num * budget = (budget - expenses) * 100 * rate.den
            /\ rate.num < 0 <=> (expenses > budget /\ budget > 0)
            /\ rate.num <= 100 * rate.den

\* twelve months back from 11 March 2024 on a clock east of UTC, 377 days,
\* with 48 spent against a budget of 10: the rate is -380 %
C16_Witness ==
    /\ reportInput.shown
    /\ zone = 330
    /\ reportInput.timeRange = "12months"
    /\ reportInput.currentDate = ClockStart
    /\ RowAmounts(reportInput.expenses) = 48
    /\ RowAmounts(reportInput.budgets) = 10
    /\ totalStats.averageDaily = [num |-> 48, den |-> 377]
    /\ totalStats.savingsRate = [num |-> -3800, den |-> 10]

(***************************************************************************)
(* C17: for this_month, last_month and custom_month the budget of each     *)
(* monthly row is the sum of the amounts of the user's budgets whose       *)
(* start_date is on or after the first day and whose end_date is on or     *)
(* before the last day of that month; for the other ranges it is the total *)
(* budget of the window divided by the number of months, 3, 6 or 12.       *)
(***************************************************************************)
BudgetsOfMonth ==
    {b \in dbBudgets :
        /\ b.user_id = user
        /\ Ordinal(b.start_date) >= Ordinal(WindowFirst)
        /\ b.end_date # NoDate
        /\ Ordinal(b.end_date) <= Ordinal(WindowLast)}

C17_MonthlyRowsCarryTheBudget ==
    reportInput.shown =>
        \A j \in 1 .. Len(monthlyData) :
            LET budget == monthlyData[j].budget
            IN  /\ budget.den > 0
                /\ IF ShownSingle
                   THEN budget.num = Total(BudgetsOfMonth) * budget.den
                   ELSE budget.num * ShownMonths = totalStats.totalBudget * budget.den

(***************************************************************************)
(* C18: the monthly overview has exactly one row per calendar month in     *)
(* which a fetched expense is dated, and the row has the sum of the        *)
(* expenses dated in that month: an expense of the first or of the last    *)
(* day of a month is counted in that month.                                *)
(***************************************************************************)
MonthOf(r) == [month |-> r.expense_date.m, year |-> r.expense_date.y % 100]

InMonth(label) == SelectSeq(reportInput.expenses, LAMBDA r : MonthOf(r) = label)

C18_OneMonthlyRowPerMonth ==
    reportInput.shown =>
        /\ {monthlyData[j].month : j \in 1 .. Len(monthlyData)}
               = {MonthOf(reportInput.expenses[k]) : k \in 1 .. Len(reportInput.expenses)}
        /\ \A i, j \in 1 .. Len(monthlyData) :
               monthlyData[i].month = monthlyData[j].month => i = j
        /\ \A j \in 1 .. Len(monthlyData) :
               monthlyData[j].expenses = RowAmounts(InMonth(monthlyData[j].month))

(***************************************************************************)
(* C20: loading of the reports view does not become false while the        *)
(* profile read or the report-data read that the effect started is still   *)
(* in flight.                                                              *)
(***************************************************************************)
C20_LoadingClearedAfterAllReads ==
    [][(loading /\ ~loading') =>
          (profile' # "inflight" /\ rfetch'.pc \notin {"expenses", "budgets"})]_vars

\* C19: deleting a category removes no expense: every expense that referenced
\* it remains, with its category reference null, and every budget that
\* referenced it is deleted; and whatever categories, expenses and budgets are
\* inserted and deleted, every category reference of an expense or of a budget
\* that is not null is the id of a category of the store.
PointsToACategory(row) ==
    row.category_id = Null \/ row.category_id \in {c.id : c \in dbCategories}

DeletionOf(c) ==
    /\ {e.id : e \in dbExpenses'} = {e.id : e \in dbExpenses}
    /\ \A e \in dbExpenses :
          \E f \in dbExpenses' :
             /\ f.id = e.id
             /\ f.amount = e.amount
             /\ f.expense_date = e.expense_date
             /\ f.category_id = IF e.category_id = c.id THEN Null ELSE e.category_id
    /\ \A b \in dbBudgets :
          (b.category_id = c.id) <=> (\A a \in dbBudgets' : a.id # b.id)

C19_CategoryDeletionKeepsReferencesSound ==
    /\ [](\A row \in dbExpenses \cup dbBudgets : PointsToACategory(row))
    /\ [][\A c \in dbCategories : (c \notin dbCategories') => DeletionOf(c)]_vars

\* the category c1 was deleted while expense 1 and the displayed budget
\* referenced it, and c2 is kept: the expense is there without category and
\* the budget is gone
C19_Witness ==
    /\ io.toast = "Category deleted successfully"
    /\ \A c \in dbCategories : c.id # "c1"
    /\ Expense(1, "u1", D(2024, 3, 1), Null, 5) \in dbExpenses
    /\ \E c \in dbCategories : c.id = "c2"
    /\ Len(budgets) = 1
    /\ budgets[1].category_id = "c1"
    /\ dbBudgets = {}

(***************************************************************************)
(* C22: the report window is the first through the last day of the         *)
(* current, the previous or the chosen month for this_month, last_month    *)
(* and custom_month; for the other ranges it runs from the first day of    *)
(* the month N months before the current month through today, with N = 6   *)
(* for '6months', 12 for '12months' and 3 for anything else.  The start is *)
(* never after the end, and the bounds sent to the store are these         *)
(* calendar dates.                                                         *)
(***************************************************************************)
AskedToday == LocalFields(rfetch.currentDate, zone)

AskedMonths ==
    IF rfetch.timeRange = "6months" THEN 6
    ELSE IF rfetch.timeRange = "12months" THEN 12 ELSE 3

AskedFirst ==
    LET month == IF rfetch.timeRange = "this_month"
                 THEN MonthsBefore(AskedToday.y, AskedToday.m, 0)
                 ELSE IF rfetch.timeRange = "last_month"
                 THEN MonthsBefore(AskedToday.y, AskedToday.m, 1)
                 ELSE IF rfetch.timeRange = "custom_month" THEN rfetch.customMonth
                 ELSE MonthsBefore(AskedToday.y, AskedToday.m, AskedMonths)
    IN  D(month.year, month.month, 1)

AskedLast ==
    IF rfetch.timeRange \in {"this_month", "last_month", "custom_month"}
    THEN LastDayOfMonth(AskedFirst)
    ELSE D(AskedToday.y, AskedToday.m, AskedToday.d)

C22_WindowFollowsTheSelectedRange ==
    rfetch.pc \in {"expenses", "budgets"} =>
        /\ rfetch.gte = AskedFirst
        /\ rfetch.lte = AskedLast
        /\ Ordinal(rfetch.gte) <= Ordinal(rfetch.lte)

(***************************************************************************)
(* C28: in every report the expenses of the monthly rows add up to         *)
(* totalExpenses, and the amounts of the category rows add up to at most   *)
(* totalExpenses (no amount being negative), to exactly totalExpenses when *)
(* and only when no expense is uncategorized and there are at most 6       *)
(* categories.                                                             *)
(***************************************************************************)
RECURSIVE MonthlyExpenses(_)
MonthlyExpenses(rows) ==
    IF rows = <<>> THEN 0 ELSE Head(rows).expenses + MonthlyExpenses(Tail(rows))

C28_RowsAddUpToTheTotal ==
    reportInput.shown =>
        /\ MonthlyExpenses(monthlyData) = totalStats.totalExpenses
        /\ RowAmounts(categoryData) <= totalStats.totalExpenses
        /\ RowAmounts(categoryData) = totalStats.totalExpenses
              <=> /\ ~HasUncategorized(reportInput.expenses)
                  /\ Cardinality(DistinctCategories(reportInput.expenses)) <= 6

\* C28 as amended: the amounts of the category rows add up to exactly
\* totalExpenses when and only when no expense of a positive amount is
\* uncategorized and at most 6 categories have an expense of a positive
\* amount; the rest as claimed.
Spending(rows) == SelectSeq(rows, LAMBDA r : r.amount > 0)

C28_RowsAddUpToTheTotalUnlessSpendingIsDropped ==
    reportInput.shown =>
        /\ MonthlyExpenses(monthlyData) = totalStats.totalExpenses
        /\ RowAmounts(categoryData) <= totalStats.totalExpenses
        /\ RowAmounts(categoryData) = totalStats.totalExpenses
              <=> /\ ~HasUncategorized(Spending(reportInput.expenses))
                  /\ Cardinality(DistinctCategories(Spending(reportInput.expenses))) <= 6

\* seven categories, one of them with an expense of amount 0 only: the six
\* rows add up to the total
C28_Witness ==
    /\ reportInput.shown
    /\ ~HasUncategorized(reportInput.expenses)
    /\ Cardinality(DistinctCategories(reportInput.expenses)) = 7
    /\ Cardinality(DistinctCategories(Spending(reportInput.expenses))) = 6
    /\ Len(categoryData) = 6
    /\ totalStats.totalExpenses > 0
    /\ RowAmounts(categoryData) = totalStats.totalExpenses
    /\ MonthlyExpenses(monthlyData) = totalStats.totalExpenses

(***************************************************************************)
(* C29: a displayed budget of positive amount has the status 'exceeded'    *)
(* when and only when spent / amount * 100 >= 100, 'warning' when and only *)
(* when that is >= 80 and < 100, and 'good' otherwise, also with nothing   *)
(* spent; the value of its progress bar is never above 100 and the         *)
(* remaining amount shown is max(0, amount - spent), never negative.       *)
(* (spent / amount * 100 >= k is compared as spent * 100 >= k * amount.)   *)
(***************************************************************************)
C29_StatusFollowsTheShareSpent ==
    ~view.loading =>
        /\ Len(view.cards) = Len(budgets)
        /\ \A i \in 1 .. Len(budgets) :
              LET b    == budgets[i]
                  card == view.cards[i]
              IN  b.amount > 0 =>
                     /\ card.status = "exceeded" <=> b.spent * 100 >= 100 * b.amount
                     /\ card.status = "warning"
                           <=> (b.spent * 100 >= 80 * b.amount /\ b.spent * 100 < 100 * b.amount)
                     /\ card.status = "good" <=> b.spent * 100 < 80 * b.amount
                     /\ card.value.den > 0
                     /\ card.value.num <= 100 * card.value.den
                     /\ card.remaining >= 0
                     /\ card.remaining = IF b.amount > b.spent THEN b.amount - b.spent ELSE 0

\* a card at exactly 80: 'warning', with a fifth of the amount remaining
C29_Witness ==
    /\ ~view.loading
    /\ Len(budgets) = 1
    /\ budgets[1].amount = 100
    /\ budgets[1].spent = 80
    /\ view.cards[1].status = "warning"
    /\ view.cards[1].remaining = 20

(***************************************************************************)
(* C30: a step that submits the create or edit form with an empty name or  *)
(* an empty amount sends nothing to the store and changes no state of the  *)
(* store or of the view.  A step in which the store rejects the create,    *)
(* edit or delete leaves the displayed budgets as they were, starts no     *)
(* fetchBudgets, leaves the dialogs and the entered form data as they      *)
(* were, and shows the failure notice.  A step in which the store accepts  *)
(* closes the dialog (create, edit), resets the create form to its         *)
(* defaults (create) and starts fetchBudgets.  No step sends end_date.     *)
(***************************************************************************)
WriteFailureNotice ==
    [handleAddBudget |-> "Failed to create budget",
     handleEditBudget |-> "Failed to update budget",
     handleDeleteBudget |-> "Failed to delete budget"]

\* the form the step's handler read
Submitted ==
    IF io'.handler = "handleAddBudget" THEN view.addFormData ELSE view.editFormData

\* some slot that was idle holds a fetchBudgets after the step
FetchStarted == \E s \in DOMAIN fetches : fetches[s] = Idle /\ fetches'[s] # Idle

C30_Step ==
    /\ "end_date" \notin io'.sent
    /\ io'.handler # Null =>
          /\ (io'.handler # "handleDeleteBudget"
                /\ (Submitted.name = "" \/ Submitted.amount = Blank))
                => /\ io'.sent = {}
                   /\ io'.write = "none"
                   /\ io'.toast = Null
                   /\ UNCHANGED <<dbBudgets, dbExpenses, dbCategories, budgets, fetches, view>>
          /\ io'.write = "failed"
                => /\ budgets' = budgets
                   /\ fetches' = fetches
                   /\ view' = view
                   /\ dbBudgets' = dbBudgets
                   /\ io'.handler = "handleAddBudget" => view'.isAddDialogOpen
                   /\ io'.handler = "handleEditBudget" => view'.isEditDialogOpen
                   /\ io'.toast = WriteFailureNotice[io'.handler]
          /\ io'.write = "ok"
                => /\ FetchStarted
                   /\ io'.handler = "handleAddBudget"
                         => /\ ~view'.isAddDialogOpen
                            /\ view'.addFormData = DefaultForm(now)
                   /\ io'.handler = "handleEditBudget" => ~view'.isEditDialogOpen
          /\ io'.write # "ok"
                => /\ view'.isAddDialogOpen = view.isAddDialogOpen
                   /\ view'.isEditDialogOpen = view.isEditDialogOpen
                   /\ view'.addFormData = view.addFormData
                   /\ ~FetchStarted

C30_SubmitsAreAllOrNothing == [][C30_Step]_vars

\* a create that the store rejected, the dialog still open with what was typed
C30_Witness ==
    /\ io.handler = "handleAddBudget"
    /\ io.write = "failed"
    /\ io.toast = "Failed to create budget"
    /\ view.isAddDialogOpen
    /\ view.addFormData.name = "Rent"
    /\ view.addFormData.amount = 100

(***************************************************************************)
(* C24: when no fetchBudgets is in flight, the displayed budgets are the   *)
(* user's budgets in the store, with their ids, their fields and the spent *)
(* the store's expenses give them: whatever creates, edits and deletes     *)
(* went before, no earlier fetchBudgets has overwritten a later one.       *)
(***************************************************************************)
Displayed == {[f \in DOMAIN budgets[i] \ {"spent"} |-> budgets[i][f]] : i \in 1 .. Len(budgets)}

C24_DisplayedIsTheStoreWhenAllHasSettled ==
    (user # Null /\ \A s \in DOMAIN fetches : fetches[s].pc = "idle") =>
        /\ Displayed = {[f \in DOMAIN b \ {"user_id"} |-> b[f]] :
                             b \in {x \in dbBudgets : x.user_id = user}}
        /\ Cardinality(Displayed) = Len(budgets)
        /\ \A i \in 1 .. Len(budgets) :
              budgets[i].spent =
                  WindowSum(budgets[i], IsoDate(ResolveEnd(budgets[i], now, zone)))

(***************************************************************************)
(* C21: two calls of fetchReportsData that were given the same rows by the *)
(* store, the same timeRange and customMonth and the same clock showed the *)
(* same monthly, category, trend and totals data, whatever calls were made *)
(* between them; and a step that changes timeRange or customMonth runs     *)
(* fetchReportsData for the new values: the latest call in flight is one   *)
(* for them that the step sent, unless the run returned at once because    *)
(* custom_month has no month.                                              *)
(***************************************************************************)
C21_SameInSameOut ==
    \A i, j \in 1 .. Len(reportLog) :
        reportLog[i].input = reportLog[j].input => reportLog[i].output = reportLog[j].output

C21_ChangeInvokes ==
    (timeRange' # timeRange \/ customMonth' # customMonth) =>
        \/ ReturnsAtOnce(timeRange', customMonth')
        \/ /\ rfetch'.pc = "expenses"
           /\ rfetch'.timeRange = timeRange'
           /\ rfetch'.customMonth = customMonth'
           /\ rfetch'.currentDate = now
           /\ Len(rolder') + 1 > Len(InFlightCalls)

C21_NoStateIsKeptAcrossCalls == []C21_SameInSameOut /\ [][C21_ChangeInvokes]_vars

\* the report for '6months' was shown, then one for another range, then the
\* one for '6months' again
C21_Witness ==
    /\ Len(reportLog) = 3
    /\ reportLog[1].input = reportLog[3].input
    /\ reportLog[1].output = reportLog[3].output
    /\ reportLog[2].input.timeRange # "6months"
    /\ reportLog[2].output # reportLog[1].output
    /\ reportLog[1].output.monthlyData # <<>>

(***************************************************************************)
(* C23: when no report call is in flight and the selection is one that     *)
(* fetches, the displayed monthly, category, trend and totals data are     *)
(* what a call for the selected timeRange (and, for custom_month, the      *)
(* selected customMonth) showed: no call of an older selection has         *)
(* overwritten the report of the latest one.                               *)
(***************************************************************************)
Displaying ==
    [monthlyData |-> monthlyData, categoryData |-> categoryData, trendData |-> trendData,
     totalStats |-> totalStats]

C23_TheLatestSelectionIsDisplayed ==
    (rfetch.pc = "idle" /\ rolder = <<>> /\ ~ReturnsAtOnce(timeRange, customMonth)) =>
        \E k \in 1 .. Len(reportLog) :
            /\ reportLog[k].input.timeRange = timeRange
            /\ timeRange = "custom_month" => reportLog[k].input.customMonth = customMonth
            /\ reportLog[k].output = Displaying

(***************************************************************************)
(* C26: a step in which the expenses read or the budgets read of a report  *)
(* call fails leaves monthlyData, categoryData, trendData and totalStats   *)
(* as they were, and the four only change in the step in which a call      *)
(* shows its report; what is displayed then comes from one pair of         *)
(* replies: the totals are the sums of that pair's expenses and budgets,   *)
(* the monthly rows add up to its expenses, every category row has the sum *)
(* of its expenses of that category, and the trend adds up to its expenses *)
(* dated in the trend window.                                              *)
(***************************************************************************)
C26_FailureKeepsTheReport ==
    /\ io'.toast = "Failed to load reports data" =>
           UNCHANGED <<monthlyData, categoryData, trendData, totalStats>>
    /\ Len(reportLog') = Len(reportLog) =>
           UNCHANGED <<monthlyData, categoryData, trendData, totalStats>>

C26_OnePairOfReplies ==
    IF reportInput.shown
    THEN /\ totalStats.totalExpenses = RowAmounts(reportInput.expenses)
         /\ totalStats.totalBudget = RowAmounts(reportInput.budgets)
         /\ MonthlyExpenses(monthlyData) = RowAmounts(reportInput.expenses)
         /\ \A k \in 1 .. Len(categoryData) :
                categoryData[k].amount
                    = RowAmounts(OfCategory(reportInput.expenses, categoryData[k].name))
         /\ DistinctCategories(reportInput.expenses) # {} => categoryData # <<>>
         /\ RowAmounts(trendData) = RowAmounts(InTrendWindow)
    ELSE /\ monthlyData = <<>> /\ categoryData = <<>> /\ trendData = <<>>
         /\ totalStats = NoStats

C26_ReportIsAllOrNothing == []C26_OnePairOfReplies /\ [][C26_FailureKeepsTheReport]_vars

\* the report of '6months' stays displayed after the call for another
\* selection failed
C26_Witness ==
    /\ io.toast = "Failed to load reports data"
    /\ rfetch.pc = "idle"
    /\ rolder = <<>>
    /\ rfetch.timeRange = "this_month"
    /\ reportInput.shown
    /\ reportInput.timeRange = "6months"
    /\ totalStats.totalExpenses = 9
    /\ Len(monthlyData) = 2

(***************************************************************************)
(* C27: a step that selects custom_month sets customMonth to the current   *)
(* year and month and a step that selects another range clears it; and a   *)
(* step that ends with timeRange custom_month and no customMonth sends no  *)
(* query for report data to the store, neither for expenses nor for        *)
(* budgets, and leaves monthlyData, categoryData, trendData and totalStats *)
(* as they were.                                                           *)
(***************************************************************************)
C27_Step ==
    /\ timeRange' # timeRange =>
           customMonth' = IF timeRange' = "custom_month" THEN CurrentMonth(now, zone)
                          ELSE NoMonth
    /\ (timeRange' = "custom_month" /\ customMonth' = NoMonth) =>
           /\ rfetch'.pc = "expenses" => rfetch' = rfetch
           /\ rfetch'.pc = "budgets" => rfetch.pc = "budgets"
           /\ \A k \in 1 .. Len(rolder') :
                  \E j \in 1 .. Len(rolder) : rolder[j] = rolder'[k]
           /\ UNCHANGED <<monthlyData, categoryData, trendData, totalStats>>

C27_NoMonthNoQuery == [][C27_Step]_vars

(***************************************************************************)
(* C25: once a user is present and the effect of the view has run for that *)
(* user, loading of the budgets view and loading of the reports view each  *)
(* become false, whether the reads are answered with data or with an error *)
(* and also when the reports view is in custom_month with no month; and a  *)
(* loading that is false stays false.                                      *)
(***************************************************************************)
C25_StaysFalse ==
    /\ ~view.loading => ~view'.loading
    /\ ~loading => ~loading'

C25_LoadingEndsAndStaysEnded ==
    /\ (user # Null /\ view.cats # "closed") ~> ~view.loading
    /\ (user # Null /\ rfetch.pc # "closed") ~> ~loading
    /\ [][C25_StaysFalse]_vars

\* both views have loaded, a call of the reports view has just failed, and
\* the reports view is in custom_month with the month cleared
C25_Witness ==
    /\ user # Null
    /\ ~view.loading
    /\ ~loading
    /\ timeRange = "custom_month"
    /\ customMonth = NoMonth
    /\ io.toast = "Failed to load reports data"

====
